---- MODULE Spec2Model ----
(***************************************************************************)
(* In-memory manifests (blobrepo/src/memory_manifest.rs): the tagged entry *)
(* type, the parent loader convert_treenode, insert_entry, and the         *)
(* recursive save with its join_all fan-out over the children of a         *)
(* modified tree.                                                          *)
(*                                                                         *)
(* Identifiers and manifest contents are sequences of small integers       *)
(* ("bytes").  An Option is a sequence of length 0 (None) or 1 (Some).     *)
(***************************************************************************)
EXTENDS Integers, Sequences, FiniteSets, TLC

\* ------------------------------------------------------------------ bounds
\* How many insert_entry calls a caller makes before saving.
MaxInserts == 2
\* How many blobstore puts may fail during one save.
MaxPutFailures == 1
\* calls of save made on the same root entry
MaxFlushes == 2

\* ------------------------------------------------------------- value types
None == <<>>
Some(x) == <<x>>
IsSome(o) == Len(o) = 1
Unwrap(o) == o[1]

\* Path elements (MPathElement) of the model.
Names == {1, 2}

\* Content identifier of a blob: a deterministic, collision-free function of
\* its bytes (length-prefixed so that it can be read back out of a manifest).
Hash(bytes) == <<Len(bytes)>> \o bytes

\* The one-character type tag written after the hash in a manifest line.
TypeTag(t) ==
    CASE t = "File" -> 102
      [] t = "Exec" -> 120
      [] t = "Symlink" -> 108
      [] t = "Tree" -> 116
      [] OTHER -> 63

TagType(b) ==
    CASE b = 102 -> "File"
      [] b = 120 -> "Exec"
      [] b = 108 -> "Symlink"
      [] b = 116 -> "Tree"
      [] OTHER -> "Bad"

\* enum MemoryManifestEntry
Blob(h, t) == [tag |-> "Blob", hash |-> h, type |-> t]
Conflict(alts) == [tag |-> "Conflict", alts |-> alts]
MemTree(children, p1, p2, modified) ==
    [tag |-> "MemTree", children |-> children, p1 |-> p1, p2 |-> p2,
     modified |-> modified]
\* The root before MemoryRootManifest::new has run.
NoEntry == [tag |-> "NoEntry"]

\* MemoryManifestEntry::is_dir
is_dir(e) == e.tag = "MemTree"

\* Error values (ErrorKind) and results.
ErrUnresolvedConflicts == [kind |-> "UnresolvedConflicts", id |-> None]
ErrUnchangedManifest == [kind |-> "UnchangedManifest", id |-> None]
ErrManifestMissing(id) == [kind |-> "ManifestMissing", id |-> id]
ErrBlobstore == [kind |-> "Blobstore", id |-> None]
NoErr == [kind |-> "", id |-> None]
\* A panic! or failed assert! with its message.
Panic(msg) == [kind |-> msg, id |-> None]

\* ------------------------------------------------ the manifest wire format
RECURSIVE SortedNames_Descending(_)
\* Mutant of SortedNames: the keys are iterated in descending order.
SortedNames_Descending(S) ==
    IF S = {} THEN <<>>
    ELSE LET m == CHOOSE x \in S : \A y \in S : x >= y
         IN <<m>> \o SortedNames_Descending(S \ {m})

RECURSIVE SortedNames(_)
\* The keys of a BTreeMap in iteration order (ascending).
SortedNames(S) ==
    IF S = {} THEN <<>>
    ELSE LET m == CHOOSE x \in S : \A y \in S : x <= y
         IN <<m>> \o SortedNames(S \ {m})

\* One manifest line: name NUL hash type LF.
ManifestLine(name, hash, type) ==
    <<name>> \o <<0>> \o hash \o <<TypeTag(type)>> \o <<10>>

RECURSIVE ManifestBytes(_, _)
\* save's closure over the joined entries: entries is the sequence of
\* (path_elem, saved entry) pairs in the order join_all returns them.
ManifestBytes(entries, i) ==
    IF i > Len(entries) THEN <<>>
    ELSE ManifestLine(entries[i].name, entries[i].hash, entries[i].type)
            \o ManifestBytes(entries, i + 1)

RECURSIVE ManifestList(_)
\* Manifest::list of a stored tree blob: its lines in stored order, each a
\* (name, hash, type) entry.
ManifestList(bytes) ==
    IF Len(bytes) < 5 THEN <<>>
    ELSE LET l == bytes[3]
         IN <<[name |-> bytes[1],
               hash |-> SubSeq(bytes, 3, 3 + l),
               type |-> TagType(bytes[4 + l])]>>
                \o ManifestList(SubSeq(bytes, 6 + l, Len(bytes)))

\* Manifest::lookup of one path element in a stored tree blob.
ManifestLookup(bytes, name) ==
    LET es == ManifestList(bytes)
        hits == {i \in 1..Len(es) : es[i].name = name}
    IN IF hits = {} THEN None
       ELSE LET i == CHOOSE j \in hits : TRUE
            IN Some([hash |-> es[i].hash, type |-> es[i].type])

\* ------------------------------------------------------ the blobstore fixture
\* File blobs already in the blobstore.
FileA == <<7>>
FileB == <<8>>
\* Stored tree dir2 = { 1 -> FileA } and three stored root trees:
\* RootA = { 1 -> FileA, 2 -> dir2/ }, RootB = { 1 -> FileB (exec), 2 -> FileA }
\* (name 2, a directory in RootA, is a file in RootB) and
\* RootC = { 1 -> FileA, 2 -> a directory that is not in the blobstore }.
DirBytes == ManifestLine(1, Hash(FileA), "File")
RootABytes ==
    ManifestLine(1, Hash(FileA), "File") \o ManifestLine(2, Hash(DirBytes), "Tree")
RootBBytes ==
    ManifestLine(1, Hash(FileB), "Exec") \o ManifestLine(2, Hash(FileA), "File")
\* Two tree blobs that are not in the blobstore.
MissingBytes == ManifestLine(2, Hash(FileB), "File")
MissingDirBytes == ManifestLine(1, Hash(FileB), "File")
RootCBytes ==
    ManifestLine(1, Hash(FileA), "File")
        \o ManifestLine(2, Hash(MissingDirBytes), "Tree")

PutBlob(s, bytes) ==
    [k \in DOMAIN s \cup {Hash(bytes)} |-> IF k = Hash(bytes) THEN bytes ELSE s[k]]

InitStore ==
    PutBlob(PutBlob(PutBlob(PutBlob(PutBlob(PutBlob(<<>>, FileA), FileB),
                                    DirBytes),
                            RootABytes), RootBBytes), RootCBytes)

\* Parent identifiers handed to MemoryRootManifest::new.
ParentIds ==
    {Hash(RootABytes), Hash(RootBBytes), Hash(RootCBytes), Hash(MissingBytes)}

\* ------------------------------------------------------------ parent loader
\* BlobManifest::load: the stored bytes of the tree, or None.
BlobManifestLoad(s, id) == IF id \in DOMAIN s THEN Some(s[id]) ELSE None

LoadOk(e) == [ok |-> TRUE, entry |-> e, err |-> NoErr]
LoadErr(err) == [ok |-> FALSE, entry |-> NoEntry, err |-> err]

\* Mutants of LoadedTree: the loaded node marked modified; the loaded node
\* without its p1.
LoadedTree_Modified(children, manifest_id) ==
    MemTree(children, Some(manifest_id), None, TRUE)
LoadedTree_NoP1(children, manifest_id) == MemTree(children, None, None, FALSE)

\* Mutant of LoadedTree: the loaded node carries its identifier as p2 too.
LoadedTree_WithP2(children, manifest_id) ==
    MemTree(children, Some(manifest_id), Some(manifest_id), FALSE)

\* The node convert_treenode builds once the children are loaded.
LoadedTree(children, manifest_id) == MemTree(children, Some(manifest_id), None, FALSE)

RECURSIVE convert_treenode(_, _)
RECURSIVE ConvertChildren_ByName(_, _, _, _)
\* Mutant of ConvertChildren: an entry is taken for a directory by its name.
ConvertChildren_ByName(s, es, i, children) ==
    IF i > Len(es) THEN LoadOk(children)
    ELSE LET e == es[i]
             r == IF e.name = 2 /\ e.hash \in DOMAIN s
                  THEN convert_treenode(s, e.hash)
                  ELSE LoadOk(Blob(e.hash, e.type))
         IN IF r.ok
            THEN ConvertChildren_ByName(s, es, i + 1,
                                        (e.name :> r.entry) @@ children)
            ELSE r

RECURSIVE ConvertChildren_ByPosition(_, _, _, _)
\* Mutant of ConvertChildren: a loaded child is kept under the position at
\* which it arrived.
ConvertChildren_ByPosition(s, es, i, children) ==
    IF i > Len(es) THEN LoadOk(children)
    ELSE LET e == es[i]
             r == IF e.type = "Tree" THEN convert_treenode(s, e.hash)
                  ELSE LoadOk(Blob(e.hash, e.type))
         IN IF r.ok
            THEN ConvertChildren_ByPosition(s, es, i + 1,
                                            (i :> r.entry) @@ children)
            ELSE r

RECURSIVE ConvertChildren(_, _, _, _)
\* The and_then/fold over m.list(): entries are converted one after the
\* other, each inserted into the BTreeMap; the first error ends the stream.
ConvertChildren(s, es, i, children) ==
    IF i > Len(es) THEN LoadOk(children)
    ELSE LET e == es[i]
             r == IF e.type = "Tree" THEN convert_treenode(s, e.hash)
                  ELSE LoadOk(Blob(e.hash, e.type))
         IN IF r.ok
            THEN ConvertChildren(s, es, i + 1,
                                 (e.name :> r.entry) @@ children)
            ELSE r

\* Mutant of convert_treenode: a manifest that is not in the blobstore is
\* loaded as an empty tree.
convert_treenode_MissingAsEmpty(s, manifest_id) ==
    LET m == BlobManifestLoad(s, manifest_id)
    IN IF ~IsSome(m) THEN LoadOk(LoadedTree(<<>>, manifest_id))
       ELSE LET r == ConvertChildren(s, ManifestList(Unwrap(m)), 1, <<>>)
            IN IF r.ok THEN LoadOk(LoadedTree(r.entry, manifest_id)) ELSE r

convert_treenode(s, manifest_id) ==
    LET m == BlobManifestLoad(s, manifest_id)
    IN IF ~IsSome(m) THEN LoadErr(ErrManifestMissing(manifest_id))
       ELSE LET r == ConvertChildren(s, ManifestList(Unwrap(m)), 1, <<>>)
            IN IF r.ok THEN LoadOk(LoadedTree(r.entry, manifest_id)) ELSE r

\* DParents::new on the two optional parents.
DParentsNew(mp1, mp2) ==
    CASE ~IsSome(mp1) /\ ~IsSome(mp2) -> "None"
      [] IsSome(mp1) /\ ~IsSome(mp2) -> "One"
      [] IsSome(mp1) /\ IsSome(mp2) -> "Two"

\* Mutant of EmptyRoot: the root of a manifest with no parents starts out
\* marked modified.
EmptyRoot_Modified == MemTree(<<>>, None, None, TRUE)

\* The root of a manifest with no parents.
EmptyRoot == MemTree(<<>>, None, None, FALSE)

\* Mutant of RootNew: with two parents the alternatives are held in the
\* opposite order.
RootNew_Swapped(s, mp1, mp2) ==
    CASE DParentsNew(mp1, mp2) = "None" -> LoadOk(EmptyRoot)
      [] DParentsNew(mp1, mp2) = "One" -> convert_treenode(s, Unwrap(mp1))
      [] DParentsNew(mp1, mp2) = "Two" ->
            LET c0 == convert_treenode(s, Unwrap(mp1))
                c1 == convert_treenode(s, Unwrap(mp2))
            IN IF ~c0.ok THEN c0
               ELSE IF ~c1.ok THEN c1
               ELSE LoadOk(Conflict(<<c1.entry, c0.entry>>))

\* MemoryRootManifest::new: the root entry, or the error.
RootNew(s, mp1, mp2) ==
    CASE DParentsNew(mp1, mp2) = "None" -> LoadOk(EmptyRoot)
      [] DParentsNew(mp1, mp2) = "One" -> convert_treenode(s, Unwrap(mp1))
      [] DParentsNew(mp1, mp2) = "Two" ->
            LET c0 == convert_treenode(s, Unwrap(mp1))
                c1 == convert_treenode(s, Unwrap(mp2))
            IN IF ~c0.ok THEN c0
               ELSE IF ~c1.ok THEN c1
               ELSE LoadOk(Conflict(<<c0.entry, c1.entry>>))

\* What new can resolve to: with two parents the two loads are joined, and
\* when both fail the join resolves to the error of whichever failed first.
RootNewOutcomes(s, mp1, mp2) ==
    {RootNew(s, mp1, mp2)} \cup
    (IF DParentsNew(mp1, mp2) = "Two"
        /\ ~convert_treenode(s, Unwrap(mp1)).ok
        /\ ~convert_treenode(s, Unwrap(mp2)).ok
     THEN {convert_treenode(s, Unwrap(mp2))}
     ELSE {})

\* ---------------------------------------------------------------- mutation
\* Mutants of insert_entry: the modified flag is not set; an existing child
\* is not overwritten.
insert_entry_NoMark(tree, path, entry) ==
    [tree EXCEPT !.children = (path :> entry) @@ tree.children]
insert_entry_KeepsOld(tree, path, entry) ==
    [tree EXCEPT !.modified = TRUE,
                 !.children = tree.children @@ (path :> entry)]

\* Mutant of insert_entry: the children are replaced by the inserted one.
insert_entry_DropsOthers(tree, path, entry) ==
    [tree EXCEPT !.modified = TRUE, !.children = (path :> entry)]

\* insert_entry on a MemTree.
insert_entry(tree, path, entry) ==
    [tree EXCEPT !.modified = TRUE,
                 !.children = (path :> entry) @@ tree.children]

RECURSIVE NodeAt(_, _)
\* The entry reached from e by following the path elements of p.
NodeAt(e, p) ==
    IF p = <<>> THEN e ELSE NodeAt(e.children[Head(p)], Tail(p))

RECURSIVE EntryPaths(_)
\* The paths of all entries reachable from e through the children of trees.
EntryPaths(e) ==
    {<<>>} \cup
    (IF e.tag = "MemTree"
     THEN UNION {{<<n>> \o q : q \in EntryPaths(e.children[n])} :
                 n \in DOMAIN e.children}
     ELSE {})

RECURSIVE InsertAt(_, _, _, _)
\* insert_entry applied to the node at path q of e.
InsertAt(e, q, name, child) ==
    IF q = <<>> THEN insert_entry(e, name, child)
    ELSE [e EXCEPT !.children[Head(q)] = InsertAt(@, Tail(q), name, child)]

\* Entries a caller inserts: file blobs, an unmodified directory standing for
\* a stored tree (as the save_manifest test builds it), a new empty
\* directory, and an unresolved conflict.
InsertEntries ==
    {Blob(Hash(FileA), "File"),
     Blob(Hash(FileB), "Exec"),
     MemTree(<<>>, Some(Hash(DirBytes)), None, FALSE),
     MemTree(<<>>, None, None, TRUE),
     Conflict(<<Blob(Hash(FileA), "File"), Blob(Hash(FileB), "File")>>)}

\* -------------------------------------------------------------------- save
\* The state of the future that save returns for one entry.
\*   pending: a modified tree whose join_all has not completed
\*   upload:  its manifest was built and handed to upload_to_blobstore
\*   ok/err:  the future has resolved
\*   dropped: the future was dropped by a failing join_all above it
TPending == [st |-> "pending", hash |-> None, type |-> "", err |-> NoErr, raw |-> <<>>]
TOk(h, t) == [st |-> "ok", hash |-> h, type |-> t, err |-> NoErr, raw |-> <<>>]
TErr(e) == [st |-> "err", hash |-> None, type |-> "", err |-> e, raw |-> <<>>]
TUpload(raw) == [st |-> "upload", hash |-> Hash(raw), type |-> "Tree", err |-> NoErr, raw |-> raw]
TDropped == [st |-> "dropped", hash |-> None, type |-> "", err |-> NoErr, raw |-> <<>>]

\* Mutant of AssertFails: the assert fires only when p1 is absent as well.
AssertFails_OnlyWithoutP1(e) ==
    e.tag = "MemTree" /\ ~e.modified /\ IsSome(e.p2) /\ ~IsSome(e.p1)

\* The assert! of save's unmodified branch.
AssertFails(e) == e.tag = "MemTree" /\ ~e.modified /\ IsSome(e.p2)

\* Mutants of SaveCall: a conflict resolves to its first alternative; a
\* conflict fails with the wrong error.
SaveCall_PicksSide(e) ==
    CASE e.tag = "Blob" -> TOk(e.hash, e.type)
      [] e.tag = "Conflict" ->
            IF e.alts[1].tag = "Blob" THEN TOk(e.alts[1].hash, e.alts[1].type)
            ELSE TOk(Unwrap(e.alts[1].p1), "Tree")
      [] e.tag = "MemTree" /\ e.modified -> TPending
      [] e.tag = "MemTree" /\ ~e.modified ->
            IF IsSome(e.p1) THEN TOk(Unwrap(e.p1), "Tree")
            ELSE TErr(ErrUnchangedManifest)
SaveCall_WrongError(e) ==
    CASE e.tag = "Blob" -> TOk(e.hash, e.type)
      [] e.tag = "Conflict" -> TErr(ErrUnchangedManifest)
      [] e.tag = "MemTree" /\ e.modified -> TPending
      [] e.tag = "MemTree" /\ ~e.modified ->
            IF IsSome(e.p1) THEN TOk(Unwrap(e.p1), "Tree")
            ELSE TErr(ErrUnchangedManifest)

\* Mutant of SaveCall: an unmodified tree without p1 resolves to the entry of
\* the empty manifest.
SaveCall_EmptyOk(e) ==
    CASE e.tag = "Blob" -> TOk(e.hash, e.type)
      [] e.tag = "Conflict" -> TErr(ErrUnresolvedConflicts)
      [] e.tag = "MemTree" /\ e.modified -> TPending
      [] e.tag = "MemTree" /\ ~e.modified ->
            IF IsSome(e.p1) THEN TOk(Unwrap(e.p1), "Tree")
            ELSE TOk(Hash(<<>>), "Tree")

\* Mutant of SaveCall: the entry of an unmodified tree is given the type of
\* a file.
SaveCall_UnmodifiedAsFile(e) ==
    CASE e.tag = "Blob" -> TOk(e.hash, e.type)
      [] e.tag = "Conflict" -> TErr(ErrUnresolvedConflicts)
      [] e.tag = "MemTree" /\ e.modified -> TPending
      [] e.tag = "MemTree" /\ ~e.modified ->
            IF IsSome(e.p1) THEN TOk(Unwrap(e.p1), "File")
            ELSE TErr(ErrUnchangedManifest)

\* Mutant of SaveCall: a blob resolves to an entry of its hash with the type
\* of a plain file.
SaveCall_BlobAsFile(e) ==
    CASE e.tag = "Blob" -> TOk(e.hash, "File")
      [] e.tag = "Conflict" -> TErr(ErrUnresolvedConflicts)
      [] e.tag = "MemTree" /\ e.modified -> TPending
      [] e.tag = "MemTree" /\ ~e.modified ->
            IF IsSome(e.p1) THEN TOk(Unwrap(e.p1), "Tree")
            ELSE TErr(ErrUnchangedManifest)

\* The future save builds for entry e, before anything is polled: a blob, a
\* conflict and an unmodified tree resolve without I/O.
SaveCall(e) ==
    CASE e.tag = "Blob" -> TOk(e.hash, e.type)
      [] e.tag = "Conflict" -> TErr(ErrUnresolvedConflicts)
      [] e.tag = "MemTree" /\ e.modified -> TPending
      [] e.tag = "MemTree" /\ ~e.modified ->
            IF IsSome(e.p1) THEN TOk(Unwrap(e.p1), "Tree")
            ELSE TErr(ErrUnchangedManifest)

RECURSIVE SavePaths(_)
\* The paths of the entries save is called on: e itself and, for a modified
\* tree, recursively its children.
SavePaths(e) ==
    {<<>>} \cup
    (IF e.tag = "MemTree" /\ e.modified
     THEN UNION {{<<n>> \o q : q \in SavePaths(e.children[n])} :
                 n \in DOMAIN e.children}
     ELSE {})

\* Mutant of JoinedEntries: the names are paired with the saved entries in
\* the opposite order.
JoinedEntries_Mispaired(names, res) ==
    LET ns == SortedNames(names)
    IN [i \in 1..Len(ns) |->
           [name |-> ns[i],
            hash |-> res[ns[Len(ns) + 1 - i]].hash,
            type |-> res[ns[Len(ns) + 1 - i]].type]]

\* The joined (path_elem, entry) pairs of a modified tree, in children order.
JoinedEntries(names, res) ==
    LET ns == SortedNames(names)
    IN [i \in 1..Len(ns) |->
           [name |-> ns[i], hash |-> res[ns[i]].hash, type |-> res[ns[i]].type]]

\* join_all's error: that of the first failed child in children order.
FirstErr(names, res) ==
    LET failed == {n \in names : res[n].st = "err"}
        n0 == CHOOSE n \in failed : \A m \in failed : n <= m
    IN res[n0].err

RECURSIVE SaveRes(_)
\* What save resolves to for entry e when every blobstore put succeeds.
SaveRes(e) ==
    IF e.tag = "MemTree" /\ e.modified
    THEN LET res == [n \in DOMAIN e.children |-> SaveRes(e.children[n])]
         IN IF \E n \in DOMAIN res : res[n].st = "err"
            THEN TErr(FirstErr(DOMAIN res, res))
            ELSE TOk(Hash(ManifestBytes(JoinedEntries(DOMAIN res, res), 1)), "Tree")
    ELSE SaveCall(e)

\* ------------------------------------------------------------------- state
VARIABLES
    store,      \* the blobstore: key -> bytes
    root,       \* MemoryRootManifest.root_entry
    phase,      \* "new", "built", "saving", "done", "failed", "panic"
    parents,    \* the (mp1, mp2) given to MemoryRootManifest::new
    task,       \* during save: path -> state of the future of that entry
    wlog,       \* the puts that reached the blobstore during save, numbered
                \* in the order they completed
    ninserts,   \* insert_entry calls made
    last,       \* the last insert_entry call: [q, name, entry]
    prevRoot,   \* root_entry before the last insert_entry call
    nfail,      \* blobstore puts that failed
    lastErr,    \* the error of a failed new, or the panic message
    nflush,     \* calls of save made on the root entry
    prevFlush,  \* what the previous call of save resolved to
    \* serve_forever_async (cmdlib/src/helpers.rs)
    servePc,                \* where the function is: "setup", "select",
                            \* "quiesce", "grace", "shutdown", "returned"
    serverTask,             \* the task spawned for the server future
    signals,                \* termination signals received so far
    trigger,                \* the arm of the select that was taken
    server_result,          \* the local server_result
    quiesceCalls,           \* calls of the quiesce callback
    shutdown_grace_period,  \* argument, in ticks
    shutdown_timeout,       \* argument, in ticks
    graceTimer,             \* ticks waited in delay_for
    shutdownTimer,          \* ticks waited in timeout
    shutdownFut,            \* the shutdown future
    serveRet,               \* what the function returned
    \* filestore copy (filestore/src/copy.rs)
    copyPc,         \* where copy is: "aliases", "load", "chunks", "content",
                    \* "metadata", "returned"
    file_contents,  \* what data.content_id loads to: chunked or inline
    chunks,         \* the chunk keys of a chunked file
    concurrency,    \* config.concurrency
    issued,         \* keys whose copy was issued, with the order of issue
    inflight,       \* keys whose copy is issued and not yet answered
    copied,         \* keys whose copy succeeded
    copyRet         \* what copy returned

manifestVars == <<store, root, phase, parents, task, wlog, ninserts, last,
                  prevRoot, nfail, lastErr, nflush, prevFlush>>

serveVars == <<servePc, serverTask, signals, trigger, server_result,
               quiesceCalls, shutdown_grace_period, shutdown_timeout,
               graceTimer, shutdownTimer, shutdownFut, serveRet>>

copyVars == <<copyPc, file_contents, chunks, concurrency, issued, inflight,
              copied, copyRet>>

vars == <<manifestVars, serveVars, copyVars>>

flushVars == <<nflush, prevFlush>>

\* What the manifest leaves alone: the state of the other two programs.
otherVars == <<serveVars, copyVars>>

NoInsert == [q |-> <<>>, name |-> 0, entry |-> NoEntry]

\* ------------------------------------------- the other programs at rest
\* Result<(), Error>
ROk == [ok |-> TRUE, err |-> ""]
RErr(e) == [ok |-> FALSE, err |-> e]
NoReturn == [ok |-> FALSE, err |-> "not returned"]

\* serve_forever_async when it is called with the two durations.
ServeStart(grace, timeout) ==
    /\ servePc = "setup"
    /\ serverTask = "unspawned"
    /\ signals = {}
    /\ trigger = "none"
    /\ server_result = NoReturn
    /\ quiesceCalls = 0
    /\ shutdown_grace_period = grace
    /\ shutdown_timeout = timeout
    /\ graceTimer = 0
    /\ shutdownTimer = 0
    /\ shutdownFut = "unpolled"
    /\ serveRet = NoReturn

\* Blobstore keys: the four aliases of Alias::iter(), the chunks of a
\* chunked file, the content id and the metadata blob.
Sha1 == <<"alias", 1>>
GitSha1 == <<"alias", 2>>
Sha256 == <<"alias", 3>>
SeededBlake3 == <<"alias", 4>>
Aliases == {Sha1, GitSha1, Sha256, SeededBlake3}
ChunkKey(i) == <<"chunk", i>>
ContentKey == <<"content", 0>>
MetadataKey == <<"metadata", 0>>

\* Result<()> of copy, with the key whose copy failed.
NoKey == <<"none", 0>>
LoadKey == <<"load", 0>>
CopyPending == [st |-> "none", key |-> NoKey]
CopyOkRet == [st |-> "ok", key |-> NoKey]
\* The error of the failed copy of key k (of the failed load for LoadKey).
CopyErrRet(k) == [st |-> "err", key |-> k]

\* copy when it is called for a file of n chunks (n = 0: stored inline)
\* with config.concurrency = c.
CopyStart(kind, n, c) ==
    /\ copyPc = "aliases"
    /\ file_contents = kind
    /\ chunks = {ChunkKey(i) : i \in 1..n}
    /\ concurrency = c
    /\ issued = <<>>
    /\ inflight = {}
    /\ copied = {}
    /\ copyRet = CopyPending

\* The manifest before MemoryRootManifest::new.
ManifestInit ==
    /\ store = InitStore
    /\ root = NoEntry
    /\ phase = "new"
    /\ parents = <<None, None>>
    /\ task = <<>>
    /\ wlog = {}
    /\ ninserts = 0
    /\ last = NoInsert
    /\ prevRoot = NoEntry
    /\ nfail = 0
    /\ lastErr = NoErr
    /\ nflush = 0
    /\ prevFlush = TPending

Init ==
    /\ ManifestInit
    /\ ServeStart(0, 0)
    /\ CopyStart("Bytes", 0, 1)

OptParents == {None} \cup {Some(id) : id \in ParentIds}

\* MemoryRootManifest::new(blobstore, mp1, mp2)
New(mp1, mp2) ==
    /\ phase = "new"
    /\ IsSome(mp2) => (IsSome(mp1) /\ mp1 # mp2)
    /\ \E r \in RootNewOutcomes(store, mp1, mp2) :
          /\ parents' = <<mp1, mp2>>
          /\ root' = r.entry
          /\ phase' = IF r.ok THEN "built" ELSE "failed"
          /\ lastErr' = r.err
    /\ UNCHANGED <<store, task, wlog, ninserts, last, prevRoot, nfail>>
    /\ UNCHANGED flushVars
    /\ UNCHANGED otherVars

\* insert_entry(tree, name, entry) with tree the MemTree at path q.
InsertEntry(q, name, entry) ==
    /\ phase = "built"
    /\ ninserts < MaxInserts
    /\ q \in EntryPaths(root)
    /\ NodeAt(root, q).tag = "MemTree"
    /\ root' = InsertAt(root, q, name, entry)
    /\ prevRoot' = root
    /\ last' = [q |-> q, name |-> name, entry |-> entry]
    /\ ninserts' = ninserts + 1
    /\ UNCHANGED <<store, phase, parents, task, wlog, nfail, lastErr>>
    /\ UNCHANGED flushVars
    /\ UNCHANGED otherVars

\* Mutant of InsertNonTree: the entry that is not a tree is replaced by a new
\* tree before the panic.
InsertNonTree_MakesTree(q) ==
    /\ phase = "built"
    /\ ninserts < MaxInserts
    /\ q \in EntryPaths(root)
    /\ NodeAt(root, q).tag # "MemTree"
    /\ phase' = "panic"
    /\ lastErr' = Panic("Inserting into a non-Tree")
    /\ prevRoot' = root
    /\ last' = [q |-> q, name |-> 0, entry |-> NoEntry]
    /\ root' = IF q = <<>> THEN MemTree(<<>>, None, None, TRUE)
               ELSE InsertAt(root, SubSeq(q, 1, Len(q) - 1), q[Len(q)],
                             MemTree(<<>>, None, None, TRUE))
    /\ UNCHANGED <<store, parents, task, wlog, ninserts, nfail>>
    /\ UNCHANGED flushVars
    /\ UNCHANGED otherVars

\* insert_entry on an entry that is not a MemTree: panic.  The call is
\* recorded in last, with the root entry it was made on in prevRoot.
InsertNonTree(q) ==
    /\ phase = "built"
    /\ ninserts < MaxInserts
    /\ q \in EntryPaths(root)
    /\ NodeAt(root, q).tag # "MemTree"
    /\ phase' = "panic"
    /\ lastErr' = Panic("Inserting into a non-Tree")
    /\ prevRoot' = root
    /\ last' = [q |-> q, name |-> 0, entry |-> NoEntry]
    /\ UNCHANGED <<store, root, parents, task, wlog, ninserts, nfail>>
    /\ UNCHANGED flushVars
    /\ UNCHANGED otherVars

Resolved(t) == t.st \in {"ok", "err"}

\* MemoryRootManifest::save: save is called on the root entry, which calls it
\* on the children of every modified tree below while building the futures.
StartSave ==
    /\ phase = "built"
    /\ IF \E p \in SavePaths(root) : AssertFails(NodeAt(root, p))
       THEN /\ phase' = "panic"
            /\ lastErr' = Panic("Modified bit not set correctly on in-memory manifest")
            /\ task' = task
       ELSE /\ task' = [p \in SavePaths(root) |-> SaveCall(NodeAt(root, p))]
            /\ phase' = IF Resolved(SaveCall(root)) THEN "done" ELSE "saving"
            /\ lastErr' = lastErr
    /\ nflush' = IF phase' = "panic" THEN nflush ELSE nflush + 1
    /\ UNCHANGED <<store, root, parents, wlog, ninserts, last, prevRoot, nfail,
                   prevFlush>>
    /\ UNCHANGED otherVars

\* save takes &self: called again on the same root entry once the previous
\* call has resolved to an entry, against the blobstore as that call left it.
SaveAgain ==
    /\ phase = "done"
    /\ task[<<>>].st = "ok"
    /\ nflush < MaxFlushes
    /\ prevFlush' = task[<<>>]
    /\ nflush' = nflush + 1
    /\ task' = [p \in SavePaths(root) |-> SaveCall(NodeAt(root, p))]
    /\ phase' = IF Resolved(SaveCall(root)) THEN "done" ELSE "saving"
    /\ wlog' = {}
    /\ UNCHANGED <<store, root, parents, ninserts, last, prevRoot, nfail, lastErr>>
    /\ UNCHANGED otherVars

ChildNames(p) == DOMAIN NodeAt(root, p).children
ChildRes(p) == [n \in ChildNames(p) |-> task[p \o <<n>>]]

\* Mutants of JoinReady: a failed child counts as joined; the closure runs
\* without waiting for the children.
JoinReady_IgnoresErr(p) ==
    \A n \in ChildNames(p) : task[p \o <<n>>].st \in {"ok", "err"}
JoinReady_NoBarrier(p) == TRUE

\* Mutant of JoinReady: join_all of no futures never completes.
JoinReady_NeedsChild(p) ==
    /\ ChildNames(p) # {}
    /\ \A n \in ChildNames(p) : task[p \o <<n>>].st = "ok"

\* join_all has every child's entry.
JoinReady(p) == \A n \in ChildNames(p) : task[p \o <<n>>].st = "ok"

PhaseAfter(p) == IF p = <<>> THEN "done" ELSE "saving"

\* Mutant of Join: the path of the tree is serialized into its manifest.
Join_PathInBytes(p) ==
    /\ phase = "saving"
    /\ p \in DOMAIN task
    /\ task[p].st = "pending"
    /\ JoinReady(p)
    /\ task' = [task EXCEPT ![p] =
                   TUpload(ManifestBytes(JoinedEntries(ChildNames(p), ChildRes(p)), 1) \o p)]
    /\ UNCHANGED <<store, root, phase, parents, wlog, ninserts, last, prevRoot,
                   nfail, lastErr>>
    /\ UNCHANGED flushVars
    /\ UNCHANGED otherVars

\* Mutant of Join: the manifest handed to the upload lists no child.
Join_EmptyBytes(p) ==
    /\ phase = "saving"
    /\ p \in DOMAIN task
    /\ task[p].st = "pending"
    /\ JoinReady(p)
    /\ task' = [task EXCEPT ![p] = TUpload(<<>>)]
    /\ UNCHANGED <<store, root, phase, parents, wlog, ninserts, last, prevRoot,
                   nfail, lastErr>>
    /\ UNCHANGED flushVars
    /\ UNCHANGED otherVars

\* Mutant of Join: a tree without children resolves to its entry without
\* an upload.
Join_SkipsEmpty(p) ==
    /\ phase = "saving"
    /\ p \in DOMAIN task
    /\ task[p].st = "pending"
    /\ JoinReady(p)
    /\ task' = [task EXCEPT ![p] =
                   IF ChildNames(p) = {} THEN TOk(Hash(<<>>), "Tree")
                   ELSE TUpload(ManifestBytes(JoinedEntries(ChildNames(p),
                                                            ChildRes(p)), 1))]
    /\ phase' = IF ChildNames(p) = {} THEN PhaseAfter(p) ELSE phase
    /\ UNCHANGED <<store, root, parents, wlog, ninserts, last, prevRoot,
                   nfail, lastErr>>
    /\ UNCHANGED flushVars
    /\ UNCHANGED otherVars

\* Mutant of Join: the hash generated for the upload covers p1 as well as
\* the manifest bytes.
Join_HashCoversLineage(p) ==
    /\ phase = "saving"
    /\ p \in DOMAIN task
    /\ task[p].st = "pending"
    /\ JoinReady(p)
    /\ LET raw == ManifestBytes(JoinedEntries(ChildNames(p), ChildRes(p)), 1)
           p1 == NodeAt(root, p).p1
       IN task' = [task EXCEPT ![p] =
                      [TUpload(raw) EXCEPT
                          !.hash = Hash(raw \o (IF IsSome(p1) THEN Unwrap(p1)
                                                ELSE <<>>))]]
    /\ UNCHANGED <<store, root, phase, parents, wlog, ninserts, last, prevRoot,
                   nfail, lastErr>>
    /\ UNCHANGED flushVars
    /\ UNCHANGED otherVars

\* The and_then closure of a modified tree: all children are saved, the
\* manifest is serialized and handed to upload_to_blobstore.
Join(p) ==
    /\ phase = "saving"
    /\ p \in DOMAIN task
    /\ task[p].st = "pending"
    /\ JoinReady(p)
    /\ task' = [task EXCEPT ![p] =
                   TUpload(ManifestBytes(JoinedEntries(ChildNames(p), ChildRes(p)), 1))]
    /\ UNCHANGED <<store, root, phase, parents, wlog, ninserts, last, prevRoot,
                   nfail, lastErr>>
    /\ UNCHANGED flushVars
    /\ UNCHANGED otherVars

\* Mutant of PutOk: the upload future completes although the blob did not
\* reach the blobstore.
PutOk_NotStored(p) ==
    /\ phase = "saving"
    /\ p \in DOMAIN task
    /\ task[p].st = "upload"
    /\ wlog' = wlog \cup {[path |-> p, key |-> Hash(task[p].raw), raw |-> task[p].raw,
                         seq |-> Cardinality(wlog) + 1]}
    /\ task' = [task EXCEPT ![p] = TOk(task[p].hash, "Tree")]
    /\ phase' = PhaseAfter(p)
    /\ UNCHANGED <<store, root, parents, ninserts, last, prevRoot, nfail, lastErr>>
    /\ UNCHANGED flushVars
    /\ UNCHANGED otherVars

\* Mutant of PutOk: the entry returned for a blob the blobstore already holds
\* carries another hash than the one returned when it was first written.
PutOk_KeyByHistory(p) ==
    /\ phase = "saving"
    /\ p \in DOMAIN task
    /\ task[p].st = "upload"
    /\ store' = PutBlob(store, task[p].raw)
    /\ wlog' = wlog \cup {[path |-> p, key |-> Hash(task[p].raw), raw |-> task[p].raw,
                         seq |-> Cardinality(wlog) + 1]}
    /\ task' = [task EXCEPT ![p] =
                    TOk(IF Hash(task[p].raw) \in DOMAIN store
                        THEN task[p].hash \o <<0>> ELSE task[p].hash, "Tree")]
    /\ phase' = PhaseAfter(p)
    /\ UNCHANGED <<root, parents, ninserts, last, prevRoot, nfail, lastErr>>
    /\ UNCHANGED flushVars
    /\ UNCHANGED otherVars

\* Mutant of PutOk: the hash of the entry returned depends on how many puts
\* completed before this one.
PutOk_KeyByOrder(p) ==
    /\ phase = "saving"
    /\ p \in DOMAIN task
    /\ task[p].st = "upload"
    /\ store' = PutBlob(store, task[p].raw)
    /\ wlog' = wlog \cup {[path |-> p, key |-> Hash(task[p].raw), raw |-> task[p].raw,
                         seq |-> Cardinality(wlog) + 1]}
    /\ task' = [task EXCEPT ![p] = TOk(task[p].hash \o <<Cardinality(wlog)>>, "Tree")]
    /\ phase' = PhaseAfter(p)
    /\ UNCHANGED <<root, parents, ninserts, last, prevRoot, nfail, lastErr>>
    /\ UNCHANGED flushVars
    /\ UNCHANGED otherVars

\* Mutant of PutOk: a put under a key the blobstore already holds is
\* rejected.
PutOk_RejectsDuplicate(p) ==
    /\ phase = "saving"
    /\ p \in DOMAIN task
    /\ task[p].st = "upload"
    /\ IF Hash(task[p].raw) \in DOMAIN store
       THEN /\ task' = [task EXCEPT ![p] = TErr(ErrBlobstore)]
            /\ UNCHANGED <<store, wlog>>
       ELSE /\ store' = PutBlob(store, task[p].raw)
            /\ wlog' = wlog \cup {[path |-> p, key |-> Hash(task[p].raw),
                                  raw |-> task[p].raw,
                                  seq |-> Cardinality(wlog) + 1]}
            /\ task' = [task EXCEPT ![p] = TOk(task[p].hash, "Tree")]
    /\ phase' = PhaseAfter(p)
    /\ UNCHANGED <<root, parents, ninserts, last, prevRoot, nfail, lastErr>>
    /\ UNCHANGED flushVars
    /\ UNCHANGED otherVars

\* The upload future of a tree completes: the blob is in the blobstore.
PutOk(p) ==
    /\ phase = "saving"
    /\ p \in DOMAIN task
    /\ task[p].st = "upload"
    /\ store' = PutBlob(store, task[p].raw)
    /\ wlog' = wlog \cup {[path |-> p, key |-> Hash(task[p].raw), raw |-> task[p].raw,
                         seq |-> Cardinality(wlog) + 1]}
    /\ task' = [task EXCEPT ![p] = TOk(task[p].hash, "Tree")]
    /\ phase' = PhaseAfter(p)
    /\ UNCHANGED <<root, parents, ninserts, last, prevRoot, nfail, lastErr>>
    /\ UNCHANGED flushVars
    /\ UNCHANGED otherVars

\* Mutant of PutErr: after a failed put the closure of the tree is run again.
PutErr_Retries(p) ==
    /\ phase = "saving"
    /\ p \in DOMAIN task
    /\ task[p].st = "upload"
    /\ nfail < MaxPutFailures
    /\ nfail' = nfail + 1
    /\ task' = [task EXCEPT ![p] = TPending]
    /\ UNCHANGED <<store, root, phase, parents, wlog, ninserts, last, prevRoot,
                   lastErr>>
    /\ UNCHANGED flushVars
    /\ UNCHANGED otherVars

\* The upload future of a tree fails with a blobstore error.
PutErr(p) ==
    /\ phase = "saving"
    /\ p \in DOMAIN task
    /\ task[p].st = "upload"
    /\ nfail < MaxPutFailures
    /\ nfail' = nfail + 1
    /\ task' = [task EXCEPT ![p] = TErr(ErrBlobstore)]
    /\ phase' = PhaseAfter(p)
    /\ UNCHANGED <<store, root, parents, wlog, ninserts, last, prevRoot, lastErr>>
    /\ UNCHANGED flushVars
    /\ UNCHANGED otherVars

IsPrefix(p, q) == Len(p) <= Len(q) /\ SubSeq(q, 1, Len(p)) = p

\* Mutant of JoinErr: the failing join_all leaves the futures of the other
\* children running.
JoinErr_KeepsSiblings(p, c) ==
    /\ phase = "saving"
    /\ p \in DOMAIN task
    /\ task[p].st = "pending"
    /\ c \in ChildNames(p)
    /\ task[p \o <<c>>].st = "err"
    /\ task' = [task EXCEPT ![p] = TErr(task[p \o <<c>>].err)]
    /\ phase' = "saving"
    /\ UNCHANGED <<store, root, parents, wlog, ninserts, last, prevRoot, nfail, lastErr>>
    /\ UNCHANGED flushVars
    /\ UNCHANGED otherVars

\* Mutant of JoinErr: the failing join_all removes from the blobstore the
\* records put below the tree.
JoinErr_RollsBack(p, c) ==
    /\ phase = "saving"
    /\ p \in DOMAIN task
    /\ task[p].st = "pending"
    /\ c \in ChildNames(p)
    /\ task[p \o <<c>>].st = "err"
    /\ task' = [x \in DOMAIN task |->
                   IF x = p THEN TErr(task[p \o <<c>>].err)
                   ELSE IF IsPrefix(p, x) /\ task[x].st \in {"pending", "upload"}
                        THEN TDropped
                        ELSE task[x]]
    /\ store' = [k \in DOMAIN store \ {w.key : w \in {v \in wlog : IsPrefix(p, v.path)}}
                   |-> store[k]]
    /\ phase' = PhaseAfter(p)
    /\ UNCHANGED <<root, parents, wlog, ninserts, last, prevRoot, nfail, lastErr>>
    /\ UNCHANGED flushVars
    /\ UNCHANGED otherVars

\* join_all of the tree at p sees a failed child c: it drops the futures of
\* the other children and resolves to that error.
JoinErr(p, c) ==
    /\ phase = "saving"
    /\ p \in DOMAIN task
    /\ task[p].st = "pending"
    /\ c \in ChildNames(p)
    /\ task[p \o <<c>>].st = "err"
    /\ task' = [x \in DOMAIN task |->
                   IF x = p THEN TErr(task[p \o <<c>>].err)
                   ELSE IF IsPrefix(p, x) /\ task[x].st \in {"pending", "upload"}
                        THEN TDropped
                        ELSE task[x]]
    /\ phase' = PhaseAfter(p)
    /\ UNCHANGED <<store, root, parents, wlog, ninserts, last, prevRoot, nfail, lastErr>>
    /\ UNCHANGED flushVars
    /\ UNCHANGED otherVars

Next ==
    \/ \E mp1 \in OptParents, mp2 \in OptParents : New(mp1, mp2)
    \/ \E q \in EntryPaths(root), name \in Names, entry \in InsertEntries :
          InsertEntry(q, name, entry)
    \/ \E q \in EntryPaths(root) : InsertNonTree(q)
    \/ StartSave
    \/ SaveAgain
    \/ \E p \in DOMAIN task : Join(p)
    \/ \E p \in DOMAIN task : PutOk(p)
    \/ \E p \in DOMAIN task : PutErr(p)
    \/ \E p \in DOMAIN task, c \in Names : JoinErr(p, c)

Spec == Init /\ [][Next]_vars

\* The executor polls every future that can make progress, and the
\* blobstore answers every put: a join that is ready is eventually run, an
\* upload eventually completes or fails, and a failed child eventually fails
\* its join_all.
Fairness ==
    /\ WF_vars(\E p \in DOMAIN task : Join(p))
    /\ WF_vars(\E p \in DOMAIN task : PutOk(p) \/ PutErr(p))
    /\ WF_vars(\E p \in DOMAIN task, c \in Names : JoinErr(p, c))

LiveSpec == Spec /\ Fairness

\* Entries that break the rule that an unmodified tree has no p2: a caller
\* can build them, since the fields of MemTree are not checked on insert.
IllEntries ==
    {MemTree(<<>>, Some(Hash(DirBytes)), Some(Hash(RootABytes)), FALSE),
     MemTree(<<>>, None, Some(Hash(DirBytes)), FALSE)}

\* insert_entry with such an entry.
InsertIll(q, name, entry) ==
    /\ entry \in IllEntries
    /\ InsertEntry(q, name, entry)

NextIll ==
    \/ Next
    \/ \E q \in EntryPaths(root), name \in Names, entry \in IllEntries :
          InsertIll(q, name, entry)

\* The manifest with callers that also insert entries of IllEntries.
SpecIll == Init /\ [][NextIll]_vars

TypeOK ==
    /\ phase \in {"new", "built", "saving", "done", "failed", "panic"}
    /\ ninserts \in 0..MaxInserts
    /\ nfail \in 0..MaxPutFailures
    /\ nflush \in 0..MaxFlushes
    /\ phase \in {"saving", "done"} => DOMAIN task = SavePaths(root)

\* ------------------------------------------------- vocabulary of the claims
Saving == phase \in {"saving", "done"}
\* The result MemoryRootManifest::save resolved to.
FlushDone == phase = "done"
FlushOk == phase = "done" /\ task[<<>>].st = "ok"
FlushErr == phase = "done" /\ task[<<>>].st = "err"

RECURSIVE ContainsConflict(_)
\* e is a Conflict or holds one at any depth below.
ContainsConflict(e) ==
    \/ e.tag = "Conflict"
    \/ /\ e.tag = "MemTree"
       /\ \E n \in DOMAIN e.children : ContainsConflict(e.children[n])

IsModifiedTree(e) == e.tag = "MemTree" /\ e.modified

\* The proper prefixes of path p (the ancestors of the entry at p).
Ancestors(p) == {SubSeq(p, 1, k) : k \in 0..(Len(p) - 1)}

\* The entries of a written manifest, as a set of (name, hash, type).
Listed(raw) == {ManifestList(raw)[i] : i \in 1..Len(ManifestList(raw))}

\* ---------------------------------------------------------------------- C1
\* C1 as stated: whenever flush returns a reference, the in-memory tree holds
\* no Conflict entry anywhere, at the root or at any depth.
C1_NoConflictAnywhere == FlushOk => ~ContainsConflict(root)

\* C1 amended: whenever flush returns a reference, no entry that save was
\* called on (the root and, recursively, the children of modified trees) is
\* a Conflict.  save does not descend into an unmodified tree.
C1_NoConflictSaved ==
    FlushOk => \A p \in SavePaths(root) : NodeAt(root, p).tag # "Conflict"

\* A conflict was replaced by the last insert_entry and flush then succeeded
\* on a modified root.
C1_Witness ==
    /\ FlushOk
    /\ IsModifiedTree(root)
    /\ ContainsConflict(prevRoot)
    /\ ~ContainsConflict(root)

\* ---------------------------------------------------------------------- C2
\* C2: the save of a Conflict entry, at the root or as a child of a modified
\* tree, is failed with UnresolvedConflicts from the moment save is called
\* and stays so; nothing is put to the blobstore for it.
C2_ConflictFails ==
    Saving =>
        \A p \in DOMAIN task :
            NodeAt(root, p).tag = "Conflict" =>
                /\ task[p] = TErr(ErrUnresolvedConflicts)
                /\ \A w \in wlog : ~IsPrefix(p, w.path)

\* A flush has ended with a Conflict sitting under a modified tree while a
\* sibling subtree was written.
C2_Witness ==
    /\ FlushDone
    /\ wlog # {}
    /\ \E p \in DOMAIN task : p # <<>> /\ NodeAt(root, p).tag = "Conflict"

\* ---------------------------------------------------------------------- C3
\* C3: while a child of a modified tree has failed, that tree's manifest is
\* neither serialized nor written, its save can only end in the error of one
\* of its failed children, and a completed flush is an error.
C3_ChildFailureFailsParent ==
    Saving =>
        \A p \in DOMAIN task :
            LET failed == IF IsModifiedTree(NodeAt(root, p))
                          THEN {n \in ChildNames(p) : task[p \o <<n>>].st = "err"}
                          ELSE {}
            IN failed # {} =>
                /\ task[p].st \in {"pending", "err", "dropped"}
                /\ task[p].st = "err" =>
                      \E n \in failed : task[p].err = task[p \o <<n>>].err
                /\ \A w \in wlog : w.path # p
                /\ (p = <<>> /\ FlushDone) => FlushErr

\* A failure two levels down has failed its parent and the root.
C3_Witness ==
    /\ FlushErr
    /\ \E p \in DOMAIN task :
          /\ Len(p) = 2
          /\ task[p].st = "err"
          /\ task[SubSeq(p, 1, 1)].st = "err"
          /\ task[<<>>].err = task[p].err

\* ---------------------------------------------------------------------- C4
\* C4: a modified tree's manifest is serialized and written only when the
\* saves of all its children have completed, and it lists exactly one entry
\* per child, carrying that child's completed hash and type.
AllChildrenOk(p) == \A n \in ChildNames(p) : task[p \o <<n>>].st = "ok"

ListsChildren(p, raw) ==
    /\ Len(ManifestList(raw)) = Cardinality(ChildNames(p))
    /\ {e.name : e \in Listed(raw)} = ChildNames(p)
    /\ \A e \in Listed(raw) :
          /\ task[p \o <<e.name>>].st = "ok"
          /\ e.hash = task[p \o <<e.name>>].hash
          /\ e.type = task[p \o <<e.name>>].type

C4_Barrier ==
    Saving =>
        /\ \A p \in DOMAIN task :
              (IsModifiedTree(NodeAt(root, p)) /\ task[p].st \in {"upload", "ok"}) =>
                  /\ AllChildrenOk(p)
                  /\ task[p].st = "upload" => ListsChildren(p, task[p].raw)
        /\ \A w \in wlog : ListsChildren(w.path, w.raw)

\* A tree with two children, one of them a written subtree, has been written.
C4_Witness ==
    \E w \in wlog :
        /\ Cardinality(ChildNames(w.path)) >= 2
        /\ \E n \in ChildNames(w.path) :
              \E w2 \in wlog : w2.path = w.path \o <<n>>

OneParent == DParentsNew(parents[1], parents[2]) = "One"
ZeroParents == DParentsNew(parents[1], parents[2]) = "None"

\* C6: a manifest built from one parent and flushed without any insert
\* resolves to a tree entry whose hash is that parent, and puts nothing to
\* the blobstore.
C6_Passthrough ==
    (Saving /\ OneParent /\ ninserts = 0) =>
        /\ FlushOk
        /\ task[<<>>] = TOk(Unwrap(parents[1]), "Tree")
        /\ wlog = {}
        /\ store = InitStore

\* Such a flush has completed, for a parent that has a subdirectory.
C6_Witness ==
    /\ FlushDone /\ OneParent /\ ninserts = 0
    /\ \E n \in DOMAIN root.children : is_dir(root.children[n])

\* ---------------------------------------------------------------------- C7
RECURSIVE SubEntries(_)
\* The entries strictly below e: children of trees and alternatives of
\* conflicts, at any depth.
SubEntries(e) ==
    CASE e.tag = "MemTree" ->
            UNION {{e.children[n]} \cup SubEntries(e.children[n]) :
                   n \in DOMAIN e.children}
      [] e.tag = "Conflict" ->
            UNION {{e.alts[i]} \cup SubEntries(e.alts[i]) : i \in 1..Len(e.alts)}
      [] OTHER -> {}

UnmodifiedWellFormed(e) ==
    (e.tag = "MemTree" /\ ~e.modified) => (e.p2 = None /\ IsSome(e.p1))

\* C7: after new and any inserts, every unmodified tree node has p2 = None
\* and p1 = Some(id), except the empty root of a manifest without parents,
\* which has neither parent.  (Inserted entries are those of InsertEntries.)
C7_UnmodifiedHasP1 ==
    phase \in {"built", "saving", "done", "panic"} =>
        /\ \A e \in SubEntries(root) : UnmodifiedWellFormed(e)
        /\ \/ UnmodifiedWellFormed(root)
           \/ ZeroParents /\ root = EmptyRoot

\* A loaded tree after an insert: a modified root over an unmodified loaded
\* subdirectory.
C7_Witness ==
    /\ phase = "built" /\ OneParent /\ ninserts > 0
    /\ IsModifiedTree(root)
    /\ \E e \in SubEntries(root) :
          e.tag = "MemTree" /\ ~e.modified /\ e.children # <<>>

\* ---------------------------------------------------------------------- C8
Inserted == ninserts > 0 /\ phase \in {"built", "saving", "done"}
\* The path of the entry the last insert_entry put in place.
LastPath == last.q \o <<last.name>>

\* C8 as stated: after an insert at path P, every tree node from the root
\* down to P's parent is marked modified.
C8_AllAncestorsModified ==
    Inserted => \A a \in Ancestors(LastPath) : NodeAt(root, a).modified

\* C8 amended: insert_entry marks the one node it is called on (P's parent)
\* and puts the entry under the name; the modified flags of the nodes above
\* it are left as they were.
C8_ParentModified ==
    Inserted =>
        /\ NodeAt(root, last.q).modified
        /\ NodeAt(root, LastPath) = last.entry
        /\ \A a \in Ancestors(last.q) :
              NodeAt(root, a).modified = NodeAt(prevRoot, a).modified

AncestorsModified == \A a \in Ancestors(LastPath) : NodeAt(root, a).modified

\* An insert two levels down whose ancestors had all been marked before.
C8_Witness ==
    /\ Inserted
    /\ Len(last.q) >= 1
    /\ AncestorsModified

\* ---------------------------------------------------------------------- C9
RECURSIVE LookupPath(_, _, _)
\* Load the stored tree id and look the path up in it, one stored tree per
\* path element: Some(hash, type) of the entry found, or None.
LookupPath(s, id, path) ==
    IF id \notin DOMAIN s THEN None
    ELSE LET r == ManifestLookup(s[id], Head(path))
         IN IF Len(path) = 1 \/ ~IsSome(r) THEN r
            ELSE IF Unwrap(r).type # "Tree" THEN None
            ELSE LookupPath(s, Unwrap(r).hash, Tail(path))

Ref(t) == [hash |-> t.hash, type |-> t.type]
\* The reference the last inserted entry saves to.
LastRef == Ref(SaveRes(last.entry))

\* C9 as stated: after an insert of E at P, a flush that returns a root
\* yields a stored tree in which looking P up finds E.
C9_RoundTrip ==
    (FlushOk /\ Inserted) =>
        LookupPath(store, task[<<>>].hash, LastPath) = Some(LastRef)

\* C9 amended: the same, provided every tree node from the root down to P's
\* parent is marked modified.
C9_RoundTripMarked ==
    (FlushOk /\ Inserted /\ AncestorsModified) =>
        LookupPath(store, task[<<>>].hash, LastPath) = Some(LastRef)

\* A round trip through two written levels.
C9_Witness ==
    /\ FlushOk /\ Inserted /\ AncestorsModified
    /\ Len(last.q) >= 1
    /\ LookupPath(store, task[<<>>].hash, LastPath) = Some(LastRef)

\* --------------------------------------------------------------------- C10
\* What the tree at P's parent recorded under P's name before the insert: a
\* modified tree records what its in-memory child saves to, an unmodified one
\* stands for the stored tree p1.
PrevRefAtLastPath ==
    LET t == NodeAt(prevRoot, last.q)
    IN IF t.modified
       THEN IF last.name \in DOMAIN t.children
            THEN Some(Ref(SaveRes(t.children[last.name])))
            ELSE None
       ELSE IF IsSome(t.p1) /\ Unwrap(t.p1) \in DOMAIN store
            THEN ManifestLookup(store[Unwrap(t.p1)], last.name)
            ELSE None

\* The saved ancestors of P whose identifier is the one they had (would have
\* saved to) before the insert.
UnchangedAncestors ==
    {a \in Ancestors(LastPath) \cap DOMAIN task :
        /\ SaveRes(NodeAt(prevRoot, a)).st = "ok"
        /\ SaveRes(NodeAt(prevRoot, a)).hash = task[a].hash}

\* C10 as stated: after an insert at P and a flush, every ancestor
\* directory's identifier differs from its identifier before the insert.
C10_AncestorsChange == (FlushOk /\ Inserted) => UnchangedAncestors = {}

\* C10 amended: the same, provided every tree node from the root down to P's
\* parent is marked modified and the inserted entry does not save to the
\* reference already recorded at P.
C10_AncestorsChangeMarked ==
    (FlushOk /\ Inserted /\ AncestorsModified /\ PrevRefAtLastPath # Some(LastRef)) =>
        UnchangedAncestors = {}

\* Two ancestors, both with an identifier before the insert, both changed.
C10_Witness ==
    /\ FlushOk /\ Inserted /\ AncestorsModified
    /\ PrevRefAtLastPath # Some(LastRef)
    /\ Len(last.q) >= 1
    /\ \A a \in Ancestors(LastPath) : SaveRes(NodeAt(prevRoot, a)).st = "ok"

\* ------------------------------------------------------------------ C11
\* C11: a call of save that resolves to an entry resolves to the entry that
\* save computes from the tree's content alone, and a second call on the same
\* root entry, made after the first one has written its blobs, resolves to
\* the same entry as the first.
C11_FlushTwiceSame ==
    /\ FlushOk => task[<<>>] = SaveRes(root)
    /\ (FlushOk /\ nflush >= 2 /\ prevFlush.st = "ok") => task[<<>>] = prevFlush

\* A second flush of a tree with a modified subtree has resolved after the
\* first one stored both manifests, and has put them again.
C11_Witness ==
    /\ FlushOk
    /\ nflush = 2
    /\ prevFlush.st = "ok"
    /\ \E n \in DOMAIN root.children : IsModifiedTree(root.children[n])
    /\ Cardinality(wlog) >= 2

\* ------------------------------------------------------------------ C12
\* C12: the entry save resolves to for a subtree does not depend on the path
\* the subtree sits at: two equal subtrees at different paths resolve to the
\* same hash and type, which are those save computes from the subtree alone.
C12_PathIndependent ==
    Saving =>
        \A p \in DOMAIN task, q \in DOMAIN task :
            (/\ NodeAt(root, p) = NodeAt(root, q)
             /\ task[p].st = "ok"
             /\ task[q].st = "ok")
            => /\ Ref(task[p]) = Ref(task[q])
               /\ Ref(task[p]) = Ref(SaveRes(NodeAt(root, p)))

\* Two equal modified trees at different paths were both uploaded and the
\* flush resolved.
C12_Witness ==
    /\ FlushOk
    /\ \E p \in DOMAIN task, q \in DOMAIN task :
          /\ p # q
          /\ NodeAt(root, p) = NodeAt(root, q)
          /\ IsModifiedTree(NodeAt(root, p))
          /\ \E w \in wlog : w.path = p
          /\ \E w \in wlog : w.path = q

\* ------------------------------------------------------------------ C13
TwoParents == DParentsNew(parents[1], parents[2]) = "Two"
Constructed == phase \in {"built", "saving", "done"}

RECURSIVE IsLoadedTreeOf(_, _, _)
\* e is the in-memory form of the manifest stored under id in s: an unmodified
\* tree with p1 = id and no p2, holding one child per listed entry, a tree
\* entry as the in-memory form of the manifest it names and any other entry
\* as a blob of the listed hash and type.
IsLoadedTreeOf(e, s, id) ==
    /\ e.tag = "MemTree"
    /\ e.p1 = Some(id)
    /\ e.p2 = None
    /\ ~e.modified
    /\ id \in DOMAIN s
    /\ LET es == ManifestList(s[id])
       IN /\ DOMAIN e.children = {es[i].name : i \in 1..Len(es)}
          /\ \A i \in 1..Len(es) :
                IF es[i].type = "Tree"
                THEN IsLoadedTreeOf(e.children[es[i].name], s, es[i].hash)
                ELSE e.children[es[i].name] = Blob(es[i].hash, es[i].type)

\* C13: a manifest built from two parents A and B has as root a conflict of
\* exactly two alternatives, the loaded tree of A then the loaded tree of B,
\* and its flush fails with UnresolvedConflicts without writing anything.
C13_TwoParentsConflict ==
    (Constructed /\ TwoParents) =>
        /\ root.tag = "Conflict"
        /\ Len(root.alts) = 2
        /\ IsLoadedTreeOf(root.alts[1], InitStore, Unwrap(parents[1]))
        /\ IsLoadedTreeOf(root.alts[2], InitStore, Unwrap(parents[2]))
        /\ FlushDone => /\ FlushErr
                        /\ task[<<>>].err = ErrUnresolvedConflicts
                        /\ wlog = {}
                        /\ store = InitStore
        /\ phase # "saving"

\* A manifest built from two stored parents was flushed.
C13_Witness ==
    /\ TwoParents
    /\ FlushDone
    /\ root.tag = "Conflict"
    /\ root.alts[1] # root.alts[2]

\* ------------------------------------------------------------------ C14
\* C14: a manifest built from no parents has as root a tree with no
\* children, no p1, no p2, and not marked modified.
C14_ZeroParentsEmptyRoot ==
    (Constructed /\ ZeroParents /\ ninserts = 0) =>
        /\ root.tag = "MemTree"
        /\ DOMAIN root.children = {}
        /\ root.p1 = None
        /\ root.p2 = None
        /\ root.modified = FALSE

\* A manifest was built from no parents and nothing was inserted.
C14_Witness ==
    /\ phase = "built"
    /\ ZeroParents
    /\ ninserts = 0
    /\ root.tag = "MemTree"

\* ------------------------------------------------------------------ C15
\* C15: the flush of a manifest built from no parents, with nothing inserted,
\* fails with UnchangedManifest, resolves without any put reaching the
\* blobstore, and leaves the blobstore as it was.
C15_UnchangedEmptyFails ==
    (Saving /\ ZeroParents /\ ninserts = 0) =>
        /\ FlushErr
        /\ task[<<>>].err = ErrUnchangedManifest
        /\ task[<<>>].hash = None
        /\ wlog = {}
        /\ store = InitStore

\* The flush of an untouched manifest without parents has resolved.
C15_Witness ==
    /\ FlushDone
    /\ ZeroParents
    /\ ninserts = 0
    /\ ~IsSome(root.p1)

\* ------------------------------------------------------------------ C16
\* The identifier of the manifest that lists nothing.
EmptyTreeId == Hash(<<>>)

\* The stored manifest under h lists exactly the children of tree e, each
\* with the hash and type that child saves to.
StoresListingOf(h, e) ==
    /\ h \in DOMAIN store
    /\ Listed(store[h]) =
          {[name |-> n,
            hash |-> SaveRes(e.children[n]).hash,
            type |-> SaveRes(e.children[n]).type] : n \in DOMAIN e.children}

RECURSIVE LoadedFrom(_, _, _)
\* Tree e and every tree below it is unmodified, has no p2, and has as p1 the
\* identifier it is stored under: id for e itself, and for a tree child the
\* hash the stored manifest of its parent lists under the child's name.
LoadedFrom(e, s, id) ==
    /\ e.tag = "MemTree"
    /\ e.p1 = Some(id)
    /\ e.p2 = None
    /\ e.modified = FALSE
    /\ id \in DOMAIN s
    /\ \A n \in DOMAIN e.children :
          e.children[n].tag = "MemTree" =>
              LET r == ManifestLookup(s[id], n)
              IN /\ IsSome(r)
                 /\ LoadedFrom(e.children[n], s, Unwrap(r).hash)

\* C17: the tree convert_treenode returns for a stored identifier has, at the
\* top level and at every nested directory level, p1 = Some(the identifier
\* the level was loaded from), p2 = None and modified = false.
C17_LoadedTreesUnmodifiedWithP1 ==
    (Constructed /\ ninserts = 0) =>
        /\ OneParent => LoadedFrom(root, InitStore, Unwrap(parents[1]))
        /\ TwoParents =>
              /\ LoadedFrom(root.alts[1], InitStore, Unwrap(parents[1]))
              /\ LoadedFrom(root.alts[2], InitStore, Unwrap(parents[2]))

\* A stored tree with a nested directory was loaded.
C17_Witness ==
    /\ phase = "built"
    /\ OneParent
    /\ ninserts = 0
    /\ \E n \in DOMAIN root.children :
          /\ root.children[n].tag = "MemTree"
          /\ root.children[n].p1 # root.p1

\* ------------------------------------------------------------------ C18
\* C18: every child listed in a stored manifest is loaded by its stored type:
\* a tree entry as the nested tree loaded from the hash it lists, any other
\* entry as a blob with the listed hash and type, whatever its name.
C18_ClassifiedByStoredType ==
    (Constructed /\ ninserts = 0) =>
        /\ OneParent => IsLoadedTreeOf(root, InitStore, Unwrap(parents[1]))
        /\ TwoParents =>
              \A i \in 1..2 :
                  IsLoadedTreeOf(root.alts[i], InitStore, Unwrap(parents[i]))

\* Two stored trees were loaded that list the same name, one as a directory
\* and the other as a file: the first child is a tree, the second a blob.
C18_Witness ==
    /\ phase = "built"
    /\ TwoParents
    /\ \E n \in Names :
          /\ n \in DOMAIN root.alts[1].children
          /\ n \in DOMAIN root.alts[2].children
          /\ root.alts[1].children[n].tag = "MemTree"
          /\ root.alts[2].children[n].tag = "Blob"
          /\ root.alts[2].children[n].type = "File"

\* ------------------------------------------------------------------ C19
RECURSIVE NeededIds(_, _)
\* The tree identifiers the load of id reaches: id itself and, when it is
\* stored, those reached from the tree entries it lists.
NeededIds(s, id) ==
    {id} \cup
    (IF id \in DOMAIN s
     THEN UNION {NeededIds(s, e.hash) : e \in {x \in Listed(s[id]) : x.type = "Tree"}}
     ELSE {})

\* The needed identifiers of the parents given to new that are not stored.
AbsentIds ==
    UNION {NeededIds(InitStore, Unwrap(parents[i])) :
           i \in {j \in 1..2 : IsSome(parents[j])}} \ DOMAIN InitStore

\* C19: when a parent given to new, or a directory reached from it by the
\* recursive load, is not in the blobstore, new fails with ManifestMissing
\* carrying an identifier that is needed and absent, and yields no root
\* entry; when none is absent new does not fail.
C19_MissingTreeFailsNew ==
    phase # "new" =>
        IF AbsentIds # {}
        THEN /\ phase = "failed"
             /\ lastErr.kind = "ManifestMissing"
             /\ lastErr.id \in AbsentIds
             /\ lastErr = ErrManifestMissing(lastErr.id)
             /\ root = NoEntry
             /\ store = InitStore
        ELSE phase # "failed"

\* new on one stored parent failed on a nested directory that is absent.
C19_Witness ==
    /\ phase = "failed"
    /\ OneParent
    /\ Unwrap(parents[1]) \in DOMAIN InitStore
    /\ lastErr.id # Unwrap(parents[1])
    /\ lastErr.kind = "ManifestMissing"

\* ------------------------------------------------------------------ C20
\* The tree insert_entry was last called on, before and after the call.
InsertedIntoBefore == NodeAt(prevRoot, last.q)
InsertedIntoAfter == NodeAt(root, last.q)

\* C20: insert_entry(tree, name, child) leaves the tree with child under name
\* and marked modified, with the same p1 and p2 and with every other child
\* as it was; the keys are those it had plus name.  The trees above it keep
\* their p1, p2, modified flag and keys.
C20_InsertFrame ==
    Inserted =>
        /\ InsertedIntoAfter.tag = "MemTree"
        /\ InsertedIntoAfter.children[last.name] = last.entry
        /\ InsertedIntoAfter.modified = TRUE
        /\ InsertedIntoAfter.p1 = InsertedIntoBefore.p1
        /\ InsertedIntoAfter.p2 = InsertedIntoBefore.p2
        /\ DOMAIN InsertedIntoAfter.children
              = DOMAIN InsertedIntoBefore.children \cup {last.name}
        /\ \A n \in DOMAIN InsertedIntoBefore.children \ {last.name} :
              InsertedIntoAfter.children[n] = InsertedIntoBefore.children[n]
        /\ \A a \in Ancestors(last.q) :
              /\ NodeAt(root, a).p1 = NodeAt(prevRoot, a).p1
              /\ NodeAt(root, a).p2 = NodeAt(prevRoot, a).p2
              /\ NodeAt(root, a).modified = NodeAt(prevRoot, a).modified
              /\ DOMAIN NodeAt(root, a).children = DOMAIN NodeAt(prevRoot, a).children

\* An insert overwrote a child of a loaded tree that has another child.
C20_Witness ==
    /\ Inserted
    /\ IsSome(InsertedIntoBefore.p1)
    /\ last.name \in DOMAIN InsertedIntoBefore.children
    /\ InsertedIntoBefore.children[last.name] # last.entry
    /\ DOMAIN InsertedIntoBefore.children \ {last.name} # {}
    /\ ~InsertedIntoBefore.modified

\* ------------------------------------------------------------------ C21
InsertPanicked == phase = "panic" /\ lastErr = Panic("Inserting into a non-Tree")

\* C21: insert_entry called on a blob or on a conflict fails at once (the
\* panic "Inserting into a non-Tree") and leaves that entry, the whole root
\* entry and the blobstore as they were; an insert that went through was made
\* on a tree.
C21_InsertIntoNonTreeFails ==
    /\ InsertPanicked =>
          /\ NodeAt(prevRoot, last.q).tag \in {"Blob", "Conflict"}
          /\ NodeAt(root, last.q) = NodeAt(prevRoot, last.q)
          /\ root = prevRoot
          /\ store = InitStore
          /\ task = <<>>
    /\ Inserted => NodeAt(prevRoot, last.q).tag = "MemTree"

\* insert_entry was called on a blob below the root, after an insert that
\* went through.
C21_Witness ==
    /\ InsertPanicked
    /\ last.q # <<>>
    /\ NodeAt(root, last.q).tag = "Blob"
    /\ ninserts > 0

\* ------------------------------------------------------------------ C22
\* The child under name n of the tree at path p is an unmodified tree that
\* has a p1.
UnmodifiedChild(p, n) ==
    /\ n \in ChildNames(p)
    /\ NodeAt(root, p \o <<n>>).tag = "MemTree"
    /\ ~NodeAt(root, p \o <<n>>).modified
    /\ IsSome(NodeAt(root, p \o <<n>>).p1)

\* C22: when a modified tree that save has stored holds under name N an
\* unmodified tree with p1 = H, looking N up in the stored manifest of the
\* parent finds hash H with the type of a tree, and no put was made for the
\* child or for anything below it.
C22_UnmodifiedChildByP1 ==
    Saving =>
        \A p \in DOMAIN task :
            (IsModifiedTree(NodeAt(root, p)) /\ task[p].st = "ok") =>
                \A n \in ChildNames(p) :
                    UnmodifiedChild(p, n) =>
                        /\ task[p].hash \in DOMAIN store
                        /\ ManifestLookup(store[task[p].hash], n)
                              = Some([hash |-> Unwrap(NodeAt(root, p \o <<n>>).p1),
                                      type |-> "Tree"])
                        /\ \A w \in wlog : ~IsPrefix(p \o <<n>>, w.path)

\* The save_manifest scenario: a manifest without parents, an unmodified
\* tree standing for a stored one inserted at the root, flushed.
C22_Witness ==
    /\ FlushOk
    /\ ZeroParents
    /\ \E n \in Names :
          /\ UnmodifiedChild(<<>>, n)
          /\ LookupPath(store, task[<<>>].hash, <<n>>)
                = Some([hash |-> Hash(DirBytes), type |-> "Tree"])
    /\ Cardinality(wlog) = 1

\* ------------------------------------------------------------------ C23
RECURSIVE WireOf(_, _)
\* The bytes of the record of tree e restricted to the names in S: the line
\* of the least name, then those of the others; a line is the name, NUL, the
\* hash the child saves to, its type tag and LF.
WireOf(e, S) ==
    IF S = {} THEN <<>>
    ELSE LET n == CHOOSE x \in S : \A y \in S : x <= y
             r == SaveRes(e.children[n])
         IN <<n, 0>> \o r.hash \o <<TypeTag(r.type), 10>> \o WireOf(e, S \ {n})

\* Put w completed before put v.
PutBefore(w, v) == w.seq < v.seq

\* C23: the bytes put for a modified tree are the lines of its children in
\* ascending order of name and nothing else, in whatever order the saves of
\* the children completed.
C23_WireOrder ==
    \A w \in wlog :
        /\ IsModifiedTree(NodeAt(root, w.path))
        /\ w.raw = WireOf(NodeAt(root, w.path), DOMAIN NodeAt(root, w.path).children)

\* The record of a tree with two modified subtrees was put after the save of
\* the greater name completed before that of the lesser.
C23_Witness ==
    \E w \in wlog, c1 \in wlog, c2 \in wlog :
        /\ c1.path = w.path \o <<1>>
        /\ c2.path = w.path \o <<2>>
        /\ PutBefore(c2, c1)
        /\ PutBefore(c1, w)
        /\ Len(ManifestList(w.raw)) = 2
        /\ ManifestList(w.raw)[1].name = 1
        /\ ManifestList(w.raw)[2].name = 2

\* ------------------------------------------------------------------ C24
\* The records a flush of the root entry that succeeds puts: one for every
\* modified tree save is called on.
RecordsOf(e) ==
    {WireOf(NodeAt(e, p), DOMAIN NodeAt(e, p).children) :
        p \in {q \in SavePaths(e) : IsModifiedTree(NodeAt(e, q))}}

\* The blobstore s with the records in R added under their keys.
StoreWith(s, R) ==
    [k \in DOMAIN s \cup {Hash(b) : b \in R} |->
        IF k \in DOMAIN s THEN s[k] ELSE CHOOSE b \in R : Hash(b) = k]

\* C24: a flush that succeeds resolves to the entry, and leaves the blobstore
\* with the records, that the root entry and the initial blobstore determine,
\* in whatever order the saves of sibling subtrees completed.
C24_InterleavingIndependent ==
    FlushOk =>
        /\ task[<<>>] = SaveRes(root)
        /\ store = StoreWith(InitStore, RecordsOf(root))
        /\ {w.raw : w \in wlog} = RecordsOf(root)

\* A flush succeeded in which the save of a subtree completed before that of
\* a sibling that comes first in the children order.
C24_Witness ==
    /\ FlushOk
    /\ \E c1 \in wlog, c2 \in wlog :
          /\ Len(c1.path) > 0
          /\ Len(c1.path) = Len(c2.path)
          /\ SubSeq(c1.path, 1, Len(c1.path) - 1) = SubSeq(c2.path, 1, Len(c2.path) - 1)
          /\ c1.path[Len(c1.path)] < c2.path[Len(c2.path)]
          /\ PutBefore(c2, c1)

\* ------------------------------------------------------------------ C25
\* Two modified trees with the same children sit at different paths that
\* save is called on.
HasTwins ==
    \E p \in SavePaths(root), q \in SavePaths(root) :
        /\ p # q
        /\ IsModifiedTree(NodeAt(root, p))
        /\ IsModifiedTree(NodeAt(root, q))
        /\ NodeAt(root, p).children = NodeAt(root, q).children

\* C25: puts made under one key carry the same bytes and the blobstore holds
\* those bytes under the key; a flush of a root entry with two modified
\* trees of the same content fails only on a conflict or on a failed put,
\* never on the second put of the key.
C25_DuplicatePutHarmless ==
    Saving =>
        /\ \A w \in wlog, v \in wlog : w.key = v.key => w.raw = v.raw
        /\ \A w \in wlog : w.key \in DOMAIN store /\ store[w.key] = w.raw
        /\ (FlushDone /\ HasTwins /\ nfail = 0) =>
              \/ FlushOk
              \/ FlushErr /\ task[<<>>].err = ErrUnresolvedConflicts
                          /\ ContainsConflict(root)

\* Two modified trees of the same content were both put, under one key, and
\* the flush succeeded.
C25_Witness ==
    /\ FlushOk
    /\ HasTwins
    /\ \E w \in wlog, v \in wlog :
          /\ w.path # v.path
          /\ w.key = v.key
          /\ store[w.key] = v.raw

\* ------------------------------------------------------------------ C26
\* The save of the tree at path p has failed.
SaveFailedAt(p) == p \in DOMAIN task /\ task[p].st = "err"

\* C26: once the save of a tree has failed, no save below it hands a manifest
\* to the blobstore and no put below it completes, in any later step of the
\* same flush.
C26_FailureCancelsSiblings ==
    [][\A p \in DOMAIN task :
          (phase = "saving" /\ SaveFailedAt(p) /\ DOMAIN task' = DOMAIN task) =>
              /\ \A w \in wlog' \ wlog : ~IsPrefix(p, w.path)
              /\ \A x \in DOMAIN task :
                    (IsPrefix(p, x) /\ task'[x].st = "upload")
                        => task[x].st = "upload"]_vars

\* The save of a tree failed on one child while the save of a sibling
\* subtree was still running: that save was dropped.
C26_Witness ==
    \E p \in DOMAIN task :
        /\ SaveFailedAt(p)
        /\ IsModifiedTree(NodeAt(root, p))
        /\ \E c \in ChildNames(p), d \in ChildNames(p) :
              /\ c # d
              /\ task[p \o <<c>>].st = "err"
              /\ task[p \o <<d>>].st = "dropped"

\* ------------------------------------------------------------------ C27
\* C27: no step removes a key from the blobstore or changes the bytes under
\* a key: what was put stays, also when the flush fails afterwards.
C27_StoreOnlyGrows ==
    [][\A k \in DOMAIN store : k \in DOMAIN store' /\ store'[k] = store[k]]_vars

\* A flush failed on a conflict in one subtree after the record of a sibling
\* subtree was put: that record is in the blobstore.
C27_Witness ==
    /\ FlushErr
    /\ task[<<>>].err = ErrUnresolvedConflicts
    /\ IsModifiedTree(root)
    /\ \E c \in DOMAIN root.children : root.children[c].tag = "Conflict"
    /\ \E w \in wlog :
          /\ Len(w.path) = 1
          /\ w.key \notin DOMAIN InitStore
          /\ w.key \in DOMAIN store
          /\ store[w.key] = w.raw

\* ------------------------------------------------------------------ C28
\* e is an unmodified tree that has a p2.
UnmodifiedWithP2(e) == e.tag = "MemTree" /\ e.modified = FALSE /\ e.p2 # None

AssertPanicked ==
    /\ phase = "panic"
    /\ lastErr = Panic("Modified bit not set correctly on in-memory manifest")

\* C28 (under SpecIll): save is never under way or resolved, to an entry or
\* to an error, with an unmodified tree that has a p2 among the entries it is
\* called on, whether that tree has a p1 or not; the call ends in the failed
\* assert instead, with no task built and nothing put to the blobstore.
C28_AssertOnP2 ==
    /\ Saving => \A p \in SavePaths(root) : ~UnmodifiedWithP2(NodeAt(root, p))
    /\ AssertPanicked =>
          /\ \E p \in SavePaths(root) : UnmodifiedWithP2(NodeAt(root, p))
          /\ task = <<>>
          /\ wlog = {}
          /\ store = InitStore
          /\ nflush = 0

\* save ended in the failed assert on an unmodified tree that has both a p1
\* and a p2.
C28_Witness ==
    /\ AssertPanicked
    /\ \E p \in SavePaths(root) :
          /\ UnmodifiedWithP2(NodeAt(root, p))
          /\ IsSome(NodeAt(root, p).p1)
    /\ \A p \in SavePaths(root) :
          UnmodifiedWithP2(NodeAt(root, p)) => IsSome(NodeAt(root, p).p1)

\* ------------------------------------------------------------------ C29
\* C29: the save of a blob is resolved, from the moment it is called and
\* whatever happens to the saves around it, to the entry of the blob's own
\* hash and type, and no put is made for it.
C29_BlobSavesToItself ==
    Saving =>
        \A p \in DOMAIN task :
            NodeAt(root, p).tag = "Blob" =>
                /\ task[p].st = "ok"
                /\ task[p].hash = NodeAt(root, p).hash
                /\ task[p].type = NodeAt(root, p).type
                /\ \A w \in wlog : w.path # p

\* The save of an executable blob is resolved to its entry in a flush that
\* failed and dropped the save of a sibling tree.
C29_Witness ==
    /\ FlushErr
    /\ \E p \in DOMAIN task, q \in DOMAIN task :
          /\ NodeAt(root, p).tag = "Blob"
          /\ NodeAt(root, p).type = "Exec"
          /\ task[p].type = "Exec"
          /\ task[q].st \in {"dropped", "err"}
          /\ q # <<>>

\* ------------------------------------------------------------------ C30
\* The entry at path p is a modified tree without children.
EmptyModifiedAt(p) ==
    IsModifiedTree(NodeAt(root, p)) /\ DOMAIN NodeAt(root, p).children = {}

\* C30: the save of a modified tree without children hands the empty byte
\* sequence to the blobstore; it resolves to the tree entry of the empty
\* record's identifier once exactly one put, of the empty bytes, was made for
\* it and the blobstore holds them; it fails only when that put fails.
C30_EmptyTreeSaved ==
    Saving =>
        \A p \in DOMAIN task :
            EmptyModifiedAt(p) =>
                /\ task[p].st = "upload" => task[p].raw = <<>>
                /\ task[p].st = "ok" =>
                      /\ task[p].hash = EmptyTreeId
                      /\ task[p].type = "Tree"
                      /\ EmptyTreeId \in DOMAIN store
                      /\ store[EmptyTreeId] = <<>>
                      /\ Cardinality({w \in wlog : w.path = p}) = 1
                      /\ \A w \in wlog : w.path = p => w.raw = <<>>
                /\ task[p].st = "err" =>
                      /\ task[p].err = ErrBlobstore
                      /\ nfail > 0
                /\ task[p].st # "ok" => \A w \in wlog : w.path # p

\* A flush succeeded that saved a modified tree without children.
C30_Witness ==
    /\ FlushOk
    /\ \E p \in DOMAIN task :
          /\ EmptyModifiedAt(p)
          /\ task[p].st = "ok"
          /\ store[task[p].hash] = <<>>

\* ------------------------------------------------------------------ C31
\* Tree e with its p1 and p2 replaced.
WithLineage(e, l1, l2) == [e EXCEPT !.p1 = l1, !.p2 = l2]

SameFlush == nflush' = nflush /\ DOMAIN task' = DOMAIN task

\* C32: within one flush the save of a tree hands its manifest to the
\* blobstore at most once: it never returns from the upload to the join, a
\* save that is resolved or dropped stays as it is, and an upload that fails
\* resolves the save to the blobstore's error, which is then what the flush
\* carries.
C32_NoRetry ==
    /\ [](Saving /\ nfail > 0 =>
             \E p \in DOMAIN task :
                 /\ IsModifiedTree(NodeAt(root, p))
                 /\ task[p] = TErr(ErrBlobstore))
    /\ [][SameFlush =>
            \A p \in DOMAIN task :
                /\ task[p].st \in {"ok", "err", "dropped"} => task'[p] = task[p]
                /\ task'[p].st = "pending" => task[p].st = "pending"
                /\ (task[p].st = "upload" /\ task'[p].st = "err") =>
                      /\ task'[p] = TErr(ErrBlobstore)
                      /\ nfail' = nfail + 1
                      /\ store' = store
                /\ (task[p].st = "upload" /\ task'[p].st = "upload") =>
                      task'[p] = task[p]]_vars

\* The put of a subtree failed and the flush resolved to the blobstore's
\* error; nothing was put for that subtree.
C32_Witness ==
    /\ FlushErr
    /\ task[<<>>].err = ErrBlobstore
    /\ \E p \in DOMAIN task :
          /\ p # <<>>
          /\ IsModifiedTree(NodeAt(root, p))
          /\ task[p] = TErr(ErrBlobstore)
          /\ \A w \in wlog : w.path # p

\* ------------------------------------------------------------------ C33
\* C33 (under LiveSpec): a flush that is under way eventually resolves, and
\* a resolved flush has one outcome: the root's entry and no error, or an
\* error and no entry.
C33_FlushTerminates ==
    /\ (phase = "saving") ~> (phase = "done")
    /\ [](FlushDone =>
             \/ /\ task[<<>>].st = "ok"
                /\ task[<<>>].hash # None
                /\ task[<<>>].err = NoErr
             \/ /\ task[<<>>].st = "err"
                /\ task[<<>>].hash = None
                /\ task[<<>>].err # NoErr)

\* A flush resolved that had joins nested two levels deep.
C33_Witness ==
    /\ FlushDone
    /\ \E p \in DOMAIN task :
          /\ Len(p) = 2
          /\ IsModifiedTree(NodeAt(root, SubSeq(p, 1, 1)))
    /\ \A p \in DOMAIN task : task[p].st \in {"ok", "err", "dropped"}

\* ------------------------------------------------------------------ C34
\* The orders in which n children can arrive.
Arrivals(n) ==
    {f \in [1..n -> 1..n] : \A i \in 1..n, j \in 1..n : f[i] = f[j] => i = j}

\* The entries es taken in the order f.
InOrder(es, f) == [i \in 1..Len(es) |-> es[f[i]]]

RECURSIVE LoadedAnyOrder(_, _, _)
\* Tree e, loaded from the manifest stored under id, holds one child for each
\* name the manifest lists and no other, its children are what the fold
\* yields for every order of arrival of the listed entries, and the same
\* holds for every tree below it.
LoadedAnyOrder(e, s, id) ==
    LET es == ManifestList(s[id])
    IN /\ DOMAIN e.children = {es[i].name : i \in 1..Len(es)}
       /\ Cardinality(DOMAIN e.children) = Len(es)
       /\ \A f \in Arrivals(Len(es)) :
             LET r == ConvertChildren(s, InOrder(es, f), 1, <<>>)
             IN r.ok /\ r.entry = e.children
       /\ \A i \in 1..Len(es) :
             es[i].type = "Tree" =>
                 LoadedAnyOrder(e.children[es[i].name], s, es[i].hash)

\* C34: the tree convert_treenode yields has as keys exactly the names of the
\* stored listing, one child per name, and is the same for every order in
\* which the children are loaded, at every level.
C34_LoadOrderIndependent ==
    (Constructed /\ ninserts = 0) =>
        /\ OneParent => LoadedAnyOrder(root, InitStore, Unwrap(parents[1]))
        /\ TwoParents =>
              \A i \in 1..2 :
                  LoadedAnyOrder(root.alts[i], InitStore, Unwrap(parents[i]))

\* A stored tree that lists a file and a directory was loaded.
C34_Witness ==
    /\ phase = "built"
    /\ OneParent
    /\ ninserts = 0
    /\ Cardinality(DOMAIN root.children) = 2
    /\ \E n \in DOMAIN root.children : root.children[n].tag = "MemTree"
    /\ \E n \in DOMAIN root.children : root.children[n].tag = "Blob"


\* ============================================ serve_forever_async
\* cmdlib/src/helpers.rs. Durations are counted in ticks of a clock.
MaxGrace == 2
MaxTimeout == 2

Signals == {"SIGTERM", "SIGINT"}
SetupOutcomes == {"ok", "signal", "stats"}
ServerOutcomes == {"ok", "err", "panicked"}

\* What `join_handle_res.map_err(Error::from).and_then(|res| res)` is for a
\* server task that ended as o.
JoinResult(o) ==
    CASE o = "ok" -> ROk
      [] o = "err" -> RErr("server error")
      [] o = "panicked" -> RErr("JoinError")

\* Lines 194-206: the two signal streams are registered and the stats
\* aggregation is scheduled, each of which returns early on failure with
\* `?`; then the server is spawned onto its own task.
Setup(outcome) ==
    /\ servePc = "setup"
    /\ IF outcome = "ok"
       THEN /\ serverTask' = "running"
            /\ servePc' = "select"
            /\ serveRet' = serveRet
       ELSE /\ serverTask' = serverTask
            /\ servePc' = "returned"
            /\ serveRet' = RErr(IF outcome = "signal"
                                THEN "signal registration failed"
                                ELSE "Failed to create stats aggregation worker")
    /\ UNCHANGED <<signals, trigger, server_result, quiesceCalls,
                   shutdown_grace_period, shutdown_timeout, graceTimer,
                   shutdownTimer, shutdownFut>>
    /\ UNCHANGED <<manifestVars, copyVars>>

\* A termination signal arrives at the process once the streams exist.
Signal(sig) ==
    /\ servePc \notin {"setup", "returned"}
    /\ sig \notin signals
    /\ signals' = signals \cup {sig}
    /\ UNCHANGED <<servePc, serverTask, trigger, server_result, quiesceCalls,
                   shutdown_grace_period, shutdown_timeout, graceTimer,
                   shutdownTimer, shutdownFut, serveRet>>
    /\ UNCHANGED <<manifestVars, copyVars>>

\* The server task ends: the future returns Ok or Err, or it panics. The
\* task runs on its own until the function returns.
ServerExit(o) ==
    /\ serverTask = "running"
    /\ servePc # "returned"
    /\ serverTask' = o
    /\ UNCHANGED <<servePc, signals, trigger, server_result, quiesceCalls,
                   shutdown_grace_period, shutdown_timeout, graceTimer,
                   shutdownTimer, shutdownFut, serveRet>>
    /\ UNCHANGED <<manifestVars, copyVars>>

\* Lines 209-229: future::select(server_handle, signalled) polls the
\* server handle first, so the left arm is taken when both are ready.
Select ==
    /\ servePc = "select"
    /\ serverTask # "running" \/ signals # {}
    /\ IF serverTask # "running"
       THEN /\ trigger' = "server"
            /\ server_result' = JoinResult(serverTask)
       ELSE /\ trigger' = "signal"
            /\ server_result' = ROk
    /\ servePc' = "quiesce"
    /\ UNCHANGED <<serverTask, signals, quiesceCalls, shutdown_grace_period,
                   shutdown_timeout, graceTimer, shutdownTimer, shutdownFut,
                   serveRet>>
    /\ UNCHANGED <<manifestVars, copyVars>>

\* Line 232: quiesce(); then delay_for(shutdown_grace_period) starts.
Quiesce ==
    /\ servePc = "quiesce"
    /\ quiesceCalls' = quiesceCalls + 1
    /\ servePc' = "grace"
    /\ UNCHANGED <<serverTask, signals, trigger, server_result,
                   shutdown_grace_period, shutdown_timeout, graceTimer,
                   shutdownTimer, shutdownFut, serveRet>>
    /\ UNCHANGED <<manifestVars, copyVars>>

\* Time passes while the function waits in delay_for or in timeout.
Tick ==
    /\ \/ /\ servePc = "grace"
          /\ graceTimer < shutdown_grace_period
          /\ graceTimer' = graceTimer + 1
          /\ shutdownTimer' = shutdownTimer
       \/ /\ servePc = "shutdown"
          /\ shutdownTimer < shutdown_timeout
          /\ shutdownTimer' = shutdownTimer + 1
          /\ graceTimer' = graceTimer
    /\ UNCHANGED <<servePc, serverTask, signals, trigger, server_result,
                   quiesceCalls, shutdown_grace_period, shutdown_timeout,
                   shutdownFut, serveRet>>
    /\ UNCHANGED <<manifestVars, copyVars>>

\* GraceElapsed without the delay: shutdown is awaited right after quiesce.
GraceElapsed_NoWait ==
    /\ servePc = "grace"
    /\ servePc' = "shutdown"
    /\ shutdownFut' = "pending"
    /\ UNCHANGED <<serverTask, signals, trigger, server_result, quiesceCalls,
                   shutdown_grace_period, shutdown_timeout, graceTimer,
                   shutdownTimer, serveRet>>
    /\ UNCHANGED <<manifestVars, copyVars>>

\* Lines 239-242: the delay is over and timeout(shutdown_timeout, shutdown)
\* is awaited, which polls shutdown for the first time.
GraceElapsed ==
    /\ servePc = "grace"
    /\ graceTimer = shutdown_grace_period
    /\ servePc' = "shutdown"
    /\ shutdownFut' = "pending"
    /\ UNCHANGED <<serverTask, signals, trigger, server_result, quiesceCalls,
                   shutdown_grace_period, shutdown_timeout, graceTimer,
                   shutdownTimer, serveRet>>
    /\ UNCHANGED <<manifestVars, copyVars>>

\* Lines 242-246: shutdown is ready when timeout polls it, which it does
\* before it looks at the deadline; the function returns server_result.
ShutdownDone ==
    /\ servePc = "shutdown"
    /\ shutdownFut = "pending"
    /\ shutdownFut' = "ready"
    /\ servePc' = "returned"
    /\ serveRet' = server_result
    /\ UNCHANGED <<serverTask, signals, trigger, server_result, quiesceCalls,
                   shutdown_grace_period, shutdown_timeout, graceTimer,
                   shutdownTimer>>
    /\ UNCHANGED <<manifestVars, copyVars>>

\* TimedOut without the `?`: the timeout is swallowed and server_result is
\* returned.
TimedOut_ReturnsServerResult ==
    /\ servePc = "shutdown"
    /\ shutdownFut = "pending"
    /\ shutdownTimer = shutdown_timeout
    /\ shutdownFut' = "timed_out"
    /\ servePc' = "returned"
    /\ serveRet' = server_result
    /\ UNCHANGED <<serverTask, signals, trigger, server_result, quiesceCalls,
                   shutdown_grace_period, shutdown_timeout, graceTimer,
                   shutdownTimer>>
    /\ UNCHANGED <<manifestVars, copyVars>>

\* Lines 242-244: the deadline passes with shutdown still pending; the
\* Elapsed error is mapped and returned with `?`.
TimedOut ==
    /\ servePc = "shutdown"
    /\ shutdownFut = "pending"
    /\ shutdownTimer = shutdown_timeout
    /\ shutdownFut' = "timed_out"
    /\ servePc' = "returned"
    /\ serveRet' = RErr("Timed out shutting down server")
    /\ UNCHANGED <<serverTask, signals, trigger, server_result, quiesceCalls,
                   shutdown_grace_period, shutdown_timeout, graceTimer,
                   shutdownTimer>>
    /\ UNCHANGED <<manifestVars, copyVars>>

ServeInit ==
    /\ ManifestInit
    /\ CopyStart("Bytes", 0, 1)
    /\ \E grace \in 0..MaxGrace, timeout \in 0..MaxTimeout :
          ServeStart(grace, timeout)

ServeNext ==
    \/ \E outcome \in SetupOutcomes : Setup(outcome)
    \/ \E sig \in Signals : Signal(sig)
    \/ \E o \in ServerOutcomes : ServerExit(o)
    \/ Select
    \/ Quiesce
    \/ Tick
    \/ GraceElapsed
    \/ ShutdownDone
    \/ TimedOut

ServeSpec == ServeInit /\ [][ServeNext]_vars

\* ------------------------------------------------------------ C35, C36
ServerExited == serverTask \in ServerOutcomes
Spawned == serverTask # "unspawned"
Returned == servePc = "returned"
ShutdownAwaited == shutdownFut # "unpolled"
ShutdownOver == shutdownFut \in {"ready", "timed_out"}

\* The first two parts of the ordering: quiesce is called only after a
\* signal was received or the server task ended, and shutdown is awaited
\* only after quiesce was called and the whole grace period was waited.
QuiesceThenShutdown ==
    /\ quiesceCalls > 0 => (signals # {} \/ ServerExited)
    /\ ShutdownAwaited =>
          /\ quiesceCalls = 1
          /\ graceTimer = shutdown_grace_period

\* C35 as stated: quiesce only after a signal or the server's exit,
\* shutdown only after quiesce and the grace period, and the function
\* returns only after shutdown completed or timed out.
C35_ReturnsOnlyAfterShutdown ==
    /\ QuiesceThenShutdown
    /\ Returned => ShutdownOver

\* C35 (amended): the same ordering, where the last part holds once the
\* server has been spawned: a call that fails to register the signal
\* streams or to schedule the stats aggregation returns before that, with
\* neither quiesce nor shutdown.
C35_OrderedShutdown ==
    /\ QuiesceThenShutdown
    /\ (Returned /\ Spawned) => ShutdownOver
    /\ (Returned /\ ~Spawned) => (quiesceCalls = 0 /\ ~ShutdownAwaited /\ ~serveRet.ok)

\* A signal arrives while the server runs, quiesce is called, a grace
\* period of at least one tick is waited, shutdown completes and the
\* function returns.
C35_Witness ==
    /\ Returned
    /\ serverTask = "running"
    /\ signals # {}
    /\ quiesceCalls = 1
    /\ shutdown_grace_period > 0
    /\ graceTimer = shutdown_grace_period
    /\ shutdownFut = "ready"

\* C36: the function returns the timeout error whenever shutdown did not
\* complete within shutdown_timeout, whatever the server returned (and an
\* error too when it never came to await shutdown); when shutdown
\* completed, it returns Ok(()) if the select was won by the signal and
\* the result of the server task if it was won by the server's exit.
C36_ReturnValue ==
    Returned =>
        /\ shutdownFut = "timed_out" =>
              serveRet = RErr("Timed out shutting down server")
        /\ shutdownFut = "unpolled" => ~serveRet.ok
        /\ shutdownFut = "ready" =>
              /\ trigger = "signal" => serveRet = ROk
              /\ trigger = "server" => serveRet = JoinResult(serverTask)
              /\ trigger # "none"

\* The server ended with Ok(()), shutdown did not complete in time: the
\* function returns the timeout error.
C36_Witness ==
    /\ Returned
    /\ trigger = "server"
    /\ serverTask = "ok"
    /\ server_result = ROk
    /\ shutdownFut = "timed_out"
    /\ ~serveRet.ok

\* ==================================================== filestore copy
\* filestore/src/copy.rs. The BlobCopier answers each copy it was asked
\* for with Ok or with an error.
MaxChunks == 2
MaxConcurrency == 2

IssuedKeys == {issued[i] : i \in DOMAIN issued}
\* The unissued key of ks that comes first in the order of the iterator.
NextOf(ks) == CHOOSE k \in ks \ IssuedKeys :
                 \A k2 \in ks \ IssuedKeys : k[2] <= k2[2]

\* Lines 36-43: try_join_all polls the copies of the aliases in the order
\* of Alias::iter(), and stops at the first one that has failed.
IssueAlias ==
    /\ copyPc = "aliases"
    /\ Aliases \ IssuedKeys # {}
    /\ issued' = Append(issued, NextOf(Aliases))
    /\ inflight' = inflight \cup {NextOf(Aliases)}
    /\ UNCHANGED <<copyPc, file_contents, chunks, concurrency, copied, copyRet>>
    /\ UNCHANGED <<manifestVars, serveVars>>

\* Line 49: once every alias is copied, data.content_id is loaded from the
\* original blobstore; a failed load returns with `?`.
Load(ok) ==
    /\ copyPc = "aliases"
    /\ Aliases \subseteq copied
    /\ IF ok
       THEN /\ copyPc' = IF file_contents = "Chunked" THEN "chunks" ELSE "content"
            /\ copyRet' = copyRet
       ELSE /\ copyPc' = "returned"
            /\ copyRet' = CopyErrRet(LoadKey)
    /\ UNCHANGED <<file_contents, chunks, concurrency, issued, inflight, copied>>
    /\ UNCHANGED <<manifestVars, serveVars>>

\* Lines 52-58: buffer_unordered(config.concurrency) takes the copy of the
\* next chunk while fewer than that many are under way.
IssueChunk ==
    /\ copyPc = "chunks"
    /\ chunks \ IssuedKeys # {}
    /\ Cardinality(inflight) < concurrency
    /\ issued' = Append(issued, NextOf(chunks))
    /\ inflight' = inflight \cup {NextOf(chunks)}
    /\ UNCHANGED <<copyPc, file_contents, chunks, concurrency, copied, copyRet>>
    /\ UNCHANGED <<manifestVars, serveVars>>

\* Lines 59-63: try_collect ends when every chunk is copied.
ChunksCollected ==
    /\ copyPc = "chunks"
    /\ chunks \subseteq copied
    /\ copyPc' = "content"
    /\ UNCHANGED <<file_contents, chunks, concurrency, issued, inflight, copied,
                   copyRet>>
    /\ UNCHANGED <<manifestVars, serveVars>>

\* Line 65: copier.copy(ctx, data.content_id.blobstore_key())
IssueContent ==
    /\ copyPc = "content"
    /\ ContentKey \notin IssuedKeys
    /\ issued' = Append(issued, ContentKey)
    /\ inflight' = inflight \cup {ContentKey}
    /\ UNCHANGED <<copyPc, file_contents, chunks, concurrency, copied, copyRet>>
    /\ UNCHANGED <<manifestVars, serveVars>>

\* IssueMetadata that does not wait for the content id.
IssueMetadata_BeforeContent ==
    /\ copyPc \in {"content", "metadata"}
    /\ MetadataKey \notin IssuedKeys
    /\ issued' = Append(issued, MetadataKey)
    /\ inflight' = inflight \cup {MetadataKey}
    /\ UNCHANGED <<copyPc, file_contents, chunks, concurrency, copied, copyRet>>
    /\ UNCHANGED <<manifestVars, serveVars>>

\* Lines 67-68: copier.copy(ctx, data.clone().into_blob().id().blobstore_key())
IssueMetadata ==
    /\ copyPc = "metadata"
    /\ MetadataKey \notin IssuedKeys
    /\ issued' = Append(issued, MetadataKey)
    /\ inflight' = inflight \cup {MetadataKey}
    /\ UNCHANGED <<copyPc, file_contents, chunks, concurrency, copied, copyRet>>
    /\ UNCHANGED <<manifestVars, serveVars>>

\* The copy of k succeeds. The await of line 65 then goes on to the
\* metadata, the await of line 69 to Ok(()) of line 70.
CopyOk(k) ==
    /\ k \in inflight
    /\ copied' = copied \cup {k}
    /\ inflight' = inflight \ {k}
    /\ copyPc' = CASE k = ContentKey -> "metadata"
                   [] k = MetadataKey -> "returned"
                   [] OTHER -> copyPc
    /\ copyRet' = IF k = MetadataKey THEN CopyOkRet ELSE copyRet
    /\ UNCHANGED <<file_contents, chunks, concurrency, issued>>
    /\ UNCHANGED <<manifestVars, serveVars>>

\* The copy of k fails: the `?` of its step returns the error (lines 44,
\* 60, 65, 69), and the copies still under way are dropped with their
\* try_join_all or stream.
CopyErr(k) ==
    /\ k \in inflight
    /\ inflight' = {}
    /\ copyPc' = "returned"
    /\ copyRet' = CopyErrRet(k)
    /\ UNCHANGED <<file_contents, chunks, concurrency, issued, copied>>
    /\ UNCHANGED <<manifestVars, serveVars>>

CopyInit ==
    /\ ManifestInit
    /\ ServeStart(0, 0)
    /\ \E kind \in {"Bytes", "Chunked"}, n \in 0..MaxChunks, c \in 1..MaxConcurrency :
          /\ kind = "Bytes" <=> n = 0
          /\ CopyStart(kind, n, c)

CopyNext ==
    \/ IssueAlias
    \/ \E ok \in BOOLEAN : Load(ok)
    \/ IssueChunk
    \/ ChunksCollected
    \/ IssueContent
    \/ IssueMetadata
    \/ \E k \in inflight : CopyOk(k)
    \/ \E k \in inflight : CopyErr(k)

CopySpec == CopyInit /\ [][CopyNext]_vars

\* ----------------------------------------------------------------- C37
IsIssued(k) == k \in IssuedKeys
CopyFailed == copyRet.st = "err"

\* The order of the steps, as a predicate on the state.
WritesOrdered ==
    /\ (\E k \in chunks : IsIssued(k)) => Aliases \subseteq copied
    /\ IsIssued(ContentKey) => (Aliases \cup chunks) \subseteq copied
    /\ IsIssued(MetadataKey) =>
          /\ (Aliases \cup chunks \cup {ContentKey}) \subseteq copied
          /\ issued[Len(issued)] = MetadataKey
    /\ file_contents = "Bytes" => \A k \in IssuedKeys : k[1] # "chunk"
    /\ CopyFailed =>
          /\ copyPc = "returned"
          /\ copyRet.key \notin copied
          /\ copyRet.key # LoadKey => IsIssued(copyRet.key)
          /\ inflight = {}
    /\ copyRet.st = "ok" =>
          copied = Aliases \cup chunks \cup {ContentKey, MetadataKey}

\* C37: the metadata key is the last one whose copy is issued, after every
\* alias, then every chunk, then the content id were copied successfully;
\* a failed copy makes copy return its error, and from then on no copy is
\* issued and none succeeds.
C37_OrderedWrites ==
    /\ []WritesOrdered
    /\ [][CopyFailed => (issued' = issued /\ copied' = copied /\ copyRet' = copyRet)]_vars

\* A chunked file of two chunks copied to the end: the metadata was issued
\* last and copy returned Ok(()).
C37_Witness ==
    /\ copyRet.st = "ok"
    /\ file_contents = "Chunked"
    /\ Cardinality(chunks) = 2
    /\ Len(issued) = 8
    /\ issued[8] = MetadataKey
    /\ issued[7] = ContentKey

====
